---------------------------- MODULE Spec2Model ----------------------------
(***************************************************************************)
(* Model of the structure-aware chunker of src/src/ingestion/chunker.py    *)
(* (HalachicChunker) and of the configuration object it is built from      *)
(* (src/src/config.py, ChunkingConfig).                                    *)
(*                                                                         *)
(* A text is a sequence of characters.  Offsets are 0-based as in Python:  *)
(* the character at offset i of t is t[i+1].  The Hebrew letters the       *)
(* patterns name are written with Latin capitals:                          *)
(*   S samekh, Y yod, M mem, N final nun, E ayin, F final pe, P pe,        *)
(*   R resh, Q qof, A alef.                                                *)
(* "w" is a character that is neither whitespace, nor a Hebrew letter, nor *)
(* a dot, nor a quote mark; "'" is a quote mark of siman_katan's class.    *)
(***************************************************************************)
EXTENDS Integers, Sequences, FiniteSets, TLC

\* ------------------------------------------------------------------ bounds
MaxPieces == 3
MaxCfg == 2
MaxCalls == 2
MaxChunks == 3
MaxTokens == 3
MaxWords == 5
MaxMarkers == 3
MaxOffset == 3
MaxText == 7

\* --------------------------------------------------------- character classes
WS == {" ", "\n"}
Heb == {"S", "Y", "M", "N", "E", "F", "P", "R", "Q", "A"}
Quote == {"'"}
Dot == {"."}

Min2(a, b) == IF a <= b THEN a ELSE b
Max2(a, b) == IF a >= b THEN a ELSE b

\* ------------------------------------------------------ Python str helpers
\* t[a:b] for 0 <= a, b (clamped as Python clamps)
Slice(t, a, b) == SubSeq(t, a + 1, Min2(b, Len(t)))

\* the character at offset i, or "" past the end
At(t, i) == IF i >= 0 /\ i < Len(t) THEN t[i + 1] ELSE ""

\* offset of the first character at or after i that is not in cls
RECURSIVE SkipIn(_, _, _)
SkipIn(t, i, cls) ==
    IF i < Len(t) /\ t[i + 1] \in cls THEN SkipIn(t, i + 1, cls) ELSE i

\* offset of the first character at or after i that is in cls
RECURSIVE SkipNotIn(_, _, _)
SkipNotIn(t, i, cls) ==
    IF i < Len(t) /\ t[i + 1] \notin cls THEN SkipNotIn(t, i + 1, cls) ELSE i

\* str.lstrip(chars) / str.rstrip(chars)
lstrip(t, cls) == Slice(t, SkipIn(t, 0, cls), Len(t))

RECURSIVE rstrip(_, _)
rstrip(t, cls) ==
    IF Len(t) > 0 /\ t[Len(t)] \in cls
    THEN rstrip(SubSeq(t, 1, Len(t) - 1), cls)
    ELSE t

\* str.strip()
strip(t) == rstrip(lstrip(t, WS), WS)

\* str.split(): the maximal runs of non-whitespace, from offset i on
RECURSIVE SplitFrom(_, _)
SplitFrom(t, i) ==
    LET s == SkipIn(t, i, WS)
        e == SkipNotIn(t, s, WS)
    IN  IF s >= Len(t) THEN << >>
        ELSE <<Slice(t, s, e)>> \o SplitFrom(t, e)

split(t) == SplitFrom(t, 0)

\* " ".join(words)
RECURSIVE join(_)
join(words) ==
    IF Len(words) = 0 THEN << >>
    ELSE IF Len(words) = 1 THEN words[1]
    ELSE words[1] \o <<" ">> \o join(Tail(words))

\* str.find(sub, start): lowest offset >= start where sub occurs, else -1
RECURSIVE find(_, _, _)
find(t, sub, start) ==
    IF start + Len(sub) > Len(t) THEN -1
    ELSE IF Slice(t, start, start + Len(sub)) = sub THEN start
    ELSE find(t, sub, start + 1)

estimate_tokens(t) == Len(split(t))

\* ------------------------------------------------------- the marker scanner
SectionTypes == <<"perek", "siman", "seif", "halacha", "siman_katan">>

HIERARCHY_LEVELS ==
    [k \in {"perek", "siman", "halacha", "seif", "siman_katan", "paragraph"} |->
        CASE k = "perek" -> 0
          [] k = "siman" -> 1
          [] k = "halacha" -> 2
          [] k = "seif" -> 3
          [] k = "siman_katan" -> 4
          [] k = "paragraph" -> 5]

KwPerek == <<"P", "R", "Q">>
KwSiman == <<"S", "Y", "M", "N">>
KwSeif == <<"S", "E", "Y", "F">>

\* ^ under re.MULTILINE: offset 0 and right after every newline
LineStart(t, i) == i = 0 \/ (i <= Len(t) /\ t[i] = "\n")

LitAt(t, i, lit) == i + Len(lit) <= Len(t) /\ Slice(t, i, i + Len(lit)) = lit

SetMax(S) == CHOOSE x \in S : \A y \in S : y <= x

\* \s*$ under re.MULTILINE, tried at offset e: the greedy \s* runs to the
\* end of the whitespace; $ holds there only at the end of the text, else
\* the engine backs off to the last newline of the run.  -1: no match.
WsDollar(t, e) ==
    LET r == SkipIn(t, e, WS)
        nls == {p \in e..(r - 1) : t[p + 1] = "\n"}
    IN  IF r = Len(t) THEN r
        ELSE IF nls = {} THEN -1
        ELSE SetMax(nls)

\* ^\s*<kw>\s+[alef-tav]{1,4} tried at offset i: [after, run] where after
\* is the offset behind the keyword's whitespace and run the length of the
\* run of Hebrew letters there; after = -1 when the prefix does not match
HeadingPrefix(t, i, kw) ==
    LET j == SkipIn(t, i, WS)
        k == j + Len(kw)
        k2 == SkipIn(t, k, WS)
    IN  IF LineStart(t, i) /\ LitAt(t, j, kw) /\ k2 > k
        THEN [after |-> k2, run |-> SkipIn(t, k2, Heb) - k2]
        ELSE [after |-> -1, run |-> 0]

\* The end offset of the match of the kind's pattern that starts at offset
\* i, or -1 when the pattern does not match there (STRUCTURE_PATTERNS)
MatchAt(kind, t, i) ==
    CASE kind = "perek" ->
            LET h == HeadingPrefix(t, i, KwPerek)
            IN  IF h.after >= 0 /\ h.run >= 1 /\ h.run <= 4
                THEN WsDollar(t, h.after + h.run) ELSE -1
      [] kind = "siman" ->
            LET h == HeadingPrefix(t, i, KwSiman)
            IN  IF h.after >= 0 /\ h.run >= 1
                THEN h.after + Min2(h.run, 4) ELSE -1
      [] kind = "seif" ->
            LET h == HeadingPrefix(t, i, KwSeif)
            IN  IF h.after >= 0 /\ h.run >= 1
                THEN h.after + Min2(h.run, 4) ELSE -1
      [] kind = "halacha" ->
            LET j == SkipIn(t, i, WS)
                d == IF At(t, j) = "." THEN j + 1 ELSE j
                c == SkipIn(t, d, Heb) - d
            IN  IF LineStart(t, i) /\ c >= 1 /\ c <= 3 /\ At(t, d + c) = "."
                THEN WsDollar(t, d + c + 1) ELSE -1
      [] kind = "siman_katan" ->
            LET q == SkipIn(t, i + 1, Quote) - (i + 1)
                k == i + 2 + q
                k2 == SkipIn(t, k, WS)
                c == SkipIn(t, k2, Heb) - k2
            IN  IF At(t, i) = "S" /\ q >= 1 /\ q <= 2 /\ At(t, i + 1 + q) = "Q"
                   /\ k2 > k /\ c >= 1
                THEN k2 + Min2(c, 4) ELSE -1

\* pattern.finditer(text): the non-overlapping matches, leftmost first
RECURSIVE finditer(_, _, _)
finditer(kind, t, pos) ==
    IF pos >= Len(t) THEN << >>
    ELSE LET e == MatchAt(kind, t, pos)
         IN  IF e > pos
             THEN <<[start |-> pos, end |-> e]>> \o finditer(kind, t, e)
             ELSE finditer(kind, t, pos + 1)

\* match.group().strip().rstrip(".").lstrip(".").strip()
MarkerTitle(t, m) ==
    strip(lstrip(rstrip(strip(Slice(t, m.start, m.end)), Dot), Dot))

RECURSIVE MarkersOfKind(_, _, _)
MarkersOfKind(kind, t, ms) ==
    IF Len(ms) = 0 THEN << >>
    ELSE <<[type |-> kind,
            title |-> MarkerTitle(t, ms[1]),
            position |-> ms[1].start,
            level |-> HIERARCHY_LEVELS[kind]]>>
         \o MarkersOfKind(kind, t, Tail(ms))

\* the markers in the order the scan appends them (chunker.py 123-132)
RECURSIVE ScanFrom(_, _)
ScanFrom(t, k) ==
    IF k > Len(SectionTypes) THEN << >>
    ELSE MarkersOfKind(SectionTypes[k], t, finditer(SectionTypes[k], t, 0))
         \o ScanFrom(t, k + 1)

ScanMarkers(t) == ScanFrom(t, 1)

\* a marker put in front of the markers at its own offset
RECURSIVE InsertBeforeEqual(_, _)
InsertBeforeEqual(sorted, m) ==
    IF Len(sorted) = 0 THEN <<m>>
    ELSE IF sorted[Len(sorted)].position < m.position THEN Append(sorted, m)
    ELSE Append(InsertBeforeEqual(SubSeq(sorted, 1, Len(sorted) - 1), m),
                sorted[Len(sorted)])

\* list.sort(key=position): a stable sort
RECURSIVE InsertByPosition(_, _)
InsertByPosition(sorted, m) ==
    IF Len(sorted) = 0 THEN <<m>>
    ELSE IF sorted[Len(sorted)].position <= m.position THEN Append(sorted, m)
    ELSE Append(InsertByPosition(SubSeq(sorted, 1, Len(sorted) - 1), m),
                sorted[Len(sorted)])

RECURSIVE SortByPosition(_)
SortByPosition(ms) ==
    IF Len(ms) = 0 THEN << >>
    ELSE InsertByPosition(SortByPosition(SubSeq(ms, 1, Len(ms) - 1)), ms[Len(ms)])

SortedMarkers(t) == SortByPosition(ScanMarkers(t))

\* ---------------------------------------------------- the section tree builder
\* Sections are Python objects shared between the stack, the roots list and
\* their parent's subsections list.  The model keeps them in a store, secs,
\* where the section built for marker i is secs[i], and refers to them by
\* index: roots, stack and subsections are sequences of indices.
\* the end read from the marker itself instead of from the next marker
NewSectionEndFromOwnMarker(markers, t, i) ==
    LET start == markers[i].position
        end == IF i + 1 <= Len(markers) THEN markers[i].position ELSE Len(t)
    IN  [section_type |-> markers[i].type,
         title |-> markers[i].title,
         text |-> strip(Slice(t, start, end)),
         char_start |-> start,
         char_end |-> end,
         level |-> markers[i].level,
         subsections |-> << >>]

\* the span run on to the next marker that is not at a deeper level
NewSectionThroughSubsections(markers, t, i) ==
    LET start == markers[i].position
        closing == {j \in (i + 1)..Len(markers) :
                      markers[j].level <= markers[i].level}
        end == IF closing # {}
               THEN markers[CHOOSE j \in closing : \A q \in closing : j <= q].position
               ELSE Len(t)
    IN  [section_type |-> markers[i].type,
         title |-> markers[i].title,
         text |-> strip(Slice(t, start, end)),
         char_start |-> start,
         char_end |-> end,
         level |-> markers[i].level,
         subsections |-> << >>]

\* the Section of marker i: the text from its offset to the next marker's
NewSection(markers, t, i) ==
    LET start == markers[i].position
        end == IF i + 1 <= Len(markers) THEN markers[i + 1].position ELSE Len(t)
    IN  [section_type |-> markers[i].type,
         title |-> markers[i].title,
         text |-> strip(Slice(t, start, end)),
         char_start |-> start,
         char_end |-> end,
         level |-> markers[i].level,
         subsections |-> << >>]

\* only the entries at a greater level popped, an entry at the same level kept
RECURSIVE PopStackAbove(_, _, _)
PopStackAbove(stack, secs, level) ==
    IF Len(stack) > 0 /\ secs[stack[Len(stack)]].level > level
    THEN PopStackAbove(SubSeq(stack, 1, Len(stack) - 1), secs, level)
    ELSE stack

\* while stack and stack[-1].level >= level: stack.pop()
RECURSIVE PopStack(_, _, _)
PopStack(stack, secs, level) ==
    IF Len(stack) > 0 /\ secs[stack[Len(stack)]].level >= level
    THEN PopStack(SubSeq(stack, 1, Len(stack) - 1), secs, level)
    ELSE stack

\* a root put in front of the roots list instead of behind it
BuildStepRootFirst(st, markers, t, i) ==
    LET section == NewSection(markers, t, i)
        popped == PopStack(st.stack, st.secs, section.level)
        secs1 == Append(st.secs, section)
    IN  IF Len(popped) > 0
        THEN [secs |-> [secs1 EXCEPT ![popped[Len(popped)]].subsections =
                                          Append(@, i)],
              roots |-> st.roots,
              stack |-> Append(popped, i)]
        ELSE [secs |-> secs1,
              roots |-> <<i>> \o st.roots,
              stack |-> Append(popped, i)]

\* the new section attached to the bottom of the stack instead of its top
BuildStepAttachBottom(st, markers, t, i) ==
    LET section == NewSection(markers, t, i)
        popped == PopStack(st.stack, st.secs, section.level)
        secs1 == Append(st.secs, section)
    IN  IF Len(popped) > 0
        THEN [secs |-> [secs1 EXCEPT ![popped[1]].subsections = Append(@, i)],
              roots |-> st.roots,
              stack |-> Append(popped, i)]
        ELSE [secs |-> secs1,
              roots |-> Append(st.roots, i),
              stack |-> Append(popped, i)]

\* one iteration of the loop over the markers
BuildStep(st, markers, t, i) ==
    LET section == NewSection(markers, t, i)
        popped == PopStack(st.stack, st.secs, section.level)
        secs1 == Append(st.secs, section)
    IN  IF Len(popped) > 0
        THEN [secs |-> [secs1 EXCEPT ![popped[Len(popped)]].subsections =
                                          Append(@, i)],
              roots |-> st.roots,
              stack |-> Append(popped, i)]
        ELSE [secs |-> secs1,
              roots |-> Append(st.roots, i),
              stack |-> Append(popped, i)]

RECURSIVE BuildLoop(_, _, _, _)
BuildLoop(st, markers, t, i) ==
    IF i > Len(markers) THEN st
    ELSE BuildLoop(BuildStep(st, markers, t, i), markers, t, i + 1)

EmptyForest == [secs |-> << >>, roots |-> << >>, stack |-> << >>]

_build_section_tree(markers, t) == BuildLoop(EmptyForest, markers, t, 1)

_detect_sections(t) ==
    LET markers == ScanMarkers(t)
    IN  IF Len(markers) = 0 THEN EmptyForest
        ELSE _build_section_tree(SortByPosition(markers), t)

\* ------------------------------------------------------------------ chunks
\* uuid4(): the k-th value drawn from the random stream rng of one call.
\* Values of one stream are pairwise distinct, and so are values of
\* different streams.
uuid4(rng, k) == <<"uuid4", rng, k>>

\* The chunker constructs its chunks in the order it emits them, so the
\* ids of an assembled list are consecutive draws of the stream.
StampIds(chunks, rng, draws) ==
    [k \in 1..Len(chunks) |-> [chunks[k] EXCEPT !.id = uuid4(rng, draws + k)]]

\* Chunk(...) as the chunker constructs it: chunk_index and
\* total_chunks_in_section take the defaults of src/src/models/chunk.py;
\* id is filled in from the call's uuid4 stream (see StampIds).
NewChunk(text, meta, section_path, section_type, char_start, char_end, token_count) ==
    [id |-> 0,
     text |-> text,
     book_id |-> meta.book_id,
     book_title |-> meta.title,
     book_author |-> meta.author,
     section_path |-> section_path,
     section_type |-> section_type,
     chunk_index |-> 0,
     total_chunks_in_section |-> 1,
     language |-> meta.language,
     char_start |-> char_start,
     char_end |-> char_end,
     token_count |-> token_count]

\* the title alone, without the path of the parent
BuildSectionPathTitleOnly(parent_path, section) == section.title

\* f"{parent_path} > {section.title}" under a parent, else the title
_build_section_path(parent_path, section) ==
    IF Len(parent_path) > 0
    THEN parent_path \o <<" ", ">", " ">> \o section.title
    ELSE section.title

\* ------------------------------------------------ the sliding-window splitter
\* int(pos / len(words) * len(text)) is computed in IEEE double arithmetic
\* and int() rounds towards zero.  For every word count up to 12 and text
\* length up to 80 the result is the exact quotient rounded towards zero,
\* but for the (|pos|, len(words), len(text)) below: there the quotient
\* pos / len(words) is rounded down, the product falls just short of the
\* whole number 15 or 30, and int() returns 14 or 29.
FloatRoundsDown == { <<3, 11, 55>>, <<6, 11, 55>> }

FloatFloor(pos, nwords, textlen) ==
    (pos * textlen) \div nwords
      - (IF <<pos, nwords, textlen>> \in FloatRoundsDown THEN 1 ELSE 0)

ProportionalOffset(pos, nwords, textlen) ==
    IF pos >= 0 THEN FloatFloor(pos, nwords, textlen)
    ELSE 0 - FloatFloor(0 - pos, nwords, textlen)

\* a window one word too long
WindowEndOneMore(pos, cfg, nwords) == Min2(pos + cfg.target_tokens + 1, nwords)

\* end = min(pos + target, len(words))
WindowEnd(pos, cfg, nwords) == Min2(pos + cfg.target_tokens, nwords)

\* a step of a whole window: windows that share no word
WindowStepWholeWindow(cfg) == Max2(cfg.target_tokens, 1)

\* the step without its floor of one: no progress once overlap >= target
WindowStepUnclipped(cfg) == cfg.target_tokens - cfg.overlap_tokens

\* step = max(target - overlap, 1)
WindowStep(cfg) == Max2(cfg.target_tokens - cfg.overlap_tokens, 1)

\* words[pos:end]: a negative end counts from the end of the list
PyIndex(i, n) == IF i < 0 THEN Max2(i + n, 0) ELSE Min2(i, n)

\* a slice that begins one element late
PySliceFromNext(s, a, b) == SubSeq(s, PyIndex(a, Len(s)) + 2, PyIndex(b, Len(s)))

PySlice(s, a, b) == SubSeq(s, PyIndex(a, Len(s)) + 1, PyIndex(b, Len(s)))

\* the chunk one iteration of the loop appends
WindowChunk(words, text, pos, cfg, meta, section_path, section_type, char_offset) ==
    NewChunk(join(PySlice(words, pos, WindowEnd(pos, cfg, Len(words)))),
             meta, section_path, section_type,
             char_offset + ProportionalOffset(pos, Len(words), Len(text)),
             char_offset + ProportionalOffset(WindowEnd(pos, cfg, Len(words)),
                                              Len(words), Len(text)),
             Len(PySlice(words, pos, WindowEnd(pos, cfg, Len(words)))))

\* the while loop, from window start pos on.  Line 415 reads chunk_words[0]
\* and raises IndexError on an empty window; a window is empty only when
\* target_tokens < 1, and this operator is applied with target_tokens >= 1
\* (the step-by-step specification SpecSplit covers the rest).
RECURSIVE WindowLoop(_, _, _, _, _, _, _, _)
WindowLoop(words, text, pos, cfg, meta, section_path, section_type, char_offset) ==
    IF pos >= Len(words) THEN << >>
    ELSE IF WindowEnd(pos, cfg, Len(words)) >= Len(words)
    THEN <<WindowChunk(words, text, pos, cfg, meta, section_path, section_type,
                       char_offset)>>
    ELSE <<WindowChunk(words, text, pos, cfg, meta, section_path, section_type,
                       char_offset)>>
         \o WindowLoop(words, text, pos + WindowStep(cfg), cfg, meta,
                       section_path, section_type, char_offset)

_sliding_window_chunks(text, cfg, meta, section_path, section_type, char_offset) ==
    LET words == split(text)
    IN  IF Len(words) = 0 THEN << >>
        ELSE IF Len(words) <= cfg.max_tokens
        THEN <<NewChunk(strip(text), meta, section_path, section_type,
                        char_offset, char_offset + Len(text), Len(words))>>
        ELSE WindowLoop(words, text, 0, cfg, meta, section_path, section_type,
                        char_offset)

\* --------------------------------------------- the hierarchical chunk assembler
\* the splitter called without section_type, which then takes its default
LeafChunksDefaultType(section, cfg, meta, section_path) ==
    LET token_count == estimate_tokens(section.text)
    IN  IF token_count <= cfg.max_tokens
        THEN IF Len(strip(section.text)) > 0
             THEN <<NewChunk(section.text, meta, section_path,
                             section.section_type, section.char_start,
                             section.char_end, token_count)>>
             ELSE << >>
        ELSE _sliding_window_chunks(section.text, cfg, meta, section_path,
                                    "paragraph", section.char_start)

\* the splitter called without char_offset, which then takes its default
LeafChunksNoOffset(section, cfg, meta, section_path) ==
    LET token_count == estimate_tokens(section.text)
    IN  IF token_count <= cfg.max_tokens
        THEN IF Len(strip(section.text)) > 0
             THEN <<NewChunk(section.text, meta, section_path,
                             section.section_type, section.char_start,
                             section.char_end, token_count)>>
             ELSE << >>
        ELSE _sliding_window_chunks(section.text, cfg, meta, section_path,
                                    section.section_type, 0)

\* the chunks of one leaf section
LeafChunks(section, cfg, meta, section_path) ==
    LET token_count == estimate_tokens(section.text)
    IN  IF token_count <= cfg.max_tokens
        THEN IF Len(strip(section.text)) > 0
             THEN <<NewChunk(section.text, meta, section_path,
                             section.section_type, section.char_start,
                             section.char_end, token_count)>>
             ELSE << >>
        ELSE _sliding_window_chunks(section.text, cfg, meta, section_path,
                                    section.section_type, section.char_start)

\* the text of a section that has subsections chunked as well
RECURSIVE ChunkSectionsParentsToo(_, _, _, _, _)
ChunkSectionsParentsToo(secs, sections, cfg, meta, parent_path) ==
    IF Len(sections) = 0 THEN << >>
    ELSE LET section == secs[sections[1]]
             section_path == _build_section_path(parent_path, section)
         IN  LeafChunks(section, cfg, meta, section_path)
             \o ChunkSectionsParentsToo(secs, section.subsections, cfg, meta,
                                        section_path)
             \o ChunkSectionsParentsToo(secs, Tail(sections), cfg, meta,
                                        parent_path)

\* the loop over a list of sections: recursion into subsections, the
\* chunks of a leaf otherwise
RECURSIVE _chunk_sections(_, _, _, _, _)
_chunk_sections(secs, sections, cfg, meta, parent_path) ==
    IF Len(sections) = 0 THEN << >>
    ELSE LET section == secs[sections[1]]
             section_path == _build_section_path(parent_path, section)
         IN  (IF Len(section.subsections) > 0
              THEN _chunk_sections(secs, section.subsections, cfg, meta, section_path)
              ELSE LeafChunks(section, cfg, meta, section_path))
             \o _chunk_sections(secs, Tail(sections), cfg, meta, parent_path)

\* re.split(r"\n\s*\n", text): the end offset of the separator that starts
\* at offset i (a newline, greedy whitespace, a newline), or -1
SeparatorAt(t, i) ==
    LET r == SkipIn(t, i + 1, WS)
        nls == {q \in (i + 1)..(r - 1) : t[q + 1] = "\n"}
    IN  IF At(t, i) = "\n" /\ nls # {} THEN SetMax(nls) + 1 ELSE -1

RECURSIVE ReSplit(_, _, _)
ReSplit(t, from, i) ==
    IF i >= Len(t) THEN <<Slice(t, from, Len(t))>>
    ELSE LET e == SeparatorAt(t, i)
         IN  IF e >= 0 THEN <<Slice(t, from, i)>> \o ReSplit(t, e, e)
             ELSE ReSplit(t, from, i + 1)

\* a paragraph of exactly max_tokens words handed to the splitter as well
RECURSIVE ParagraphLoopSplitsAtMax(_, _, _, _, _, _, _)
ParagraphLoopSplitsAtMax(paragraphs, text, current_pos, cfg, meta, section_path, char_offset) ==
    IF Len(paragraphs) = 0 THEN << >>
    ELSE LET para == paragraphs[1]
             para_stripped == strip(para)
             found == find(text, para, current_pos)
             para_start == IF found = -1 THEN current_pos ELSE found
             para_end == para_start + Len(para)
             token_count == estimate_tokens(para_stripped)
         IN  IF Len(para_stripped) = 0
             THEN ParagraphLoopSplitsAtMax(Tail(paragraphs), text,
                                           current_pos + Len(para) + 1,
                                           cfg, meta, section_path, char_offset)
             ELSE (IF token_count >= cfg.max_tokens
                   THEN _sliding_window_chunks(para_stripped, cfg, meta, section_path,
                                               "paragraph", char_offset + para_start)
                   ELSE <<NewChunk(para_stripped, meta, section_path, "paragraph",
                                   char_offset + para_start, char_offset + para_end,
                                   token_count)>>)
                  \o ParagraphLoopSplitsAtMax(Tail(paragraphs), text, para_end, cfg,
                                              meta, section_path, char_offset)

\* the loop over the paragraphs, with its cursor current_pos
RECURSIVE ParagraphLoop(_, _, _, _, _, _, _)
ParagraphLoop(paragraphs, text, current_pos, cfg, meta, section_path, char_offset) ==
    IF Len(paragraphs) = 0 THEN << >>
    ELSE LET para == paragraphs[1]
             para_stripped == strip(para)
             found == find(text, para, current_pos)
             para_start == IF found = -1 THEN current_pos ELSE found
             para_end == para_start + Len(para)
             token_count == estimate_tokens(para_stripped)
         IN  IF Len(para_stripped) = 0
             THEN ParagraphLoop(Tail(paragraphs), text, current_pos + Len(para) + 1,
                                cfg, meta, section_path, char_offset)
             ELSE (IF token_count > cfg.max_tokens
                   THEN _sliding_window_chunks(para_stripped, cfg, meta, section_path,
                                               "paragraph", char_offset + para_start)
                   ELSE <<NewChunk(para_stripped, meta, section_path, "paragraph",
                                   char_offset + para_start, char_offset + para_end,
                                   token_count)>>)
                  \o ParagraphLoop(Tail(paragraphs), text, para_end, cfg, meta,
                                   section_path, char_offset)

\* the book id passed where the section path belongs
ChunkByParagraphsPathFromId(text, cfg, meta) ==
    ParagraphLoop(ReSplit(text, 0, 0), text, 0, cfg, meta, meta.book_id, 0)

_chunk_by_paragraphs(text, cfg, meta) ==
    ParagraphLoop(ReSplit(text, 0, 0), text, 0, cfg, meta, << >>, 0)

\* ------------------------------------------------------ the small-chunk merger
\* the ceiling test turned around
MergeConditionAtLeastMax(prev, chunk, cfg) ==
    /\ prev.token_count < cfg.min_tokens
    /\ prev.token_count + chunk.token_count >= cfg.max_tokens
    /\ prev.section_path = chunk.section_path

\* the size test put on the next chunk instead of the accumulated one
MergeConditionNextSmall(prev, chunk, cfg) ==
    /\ chunk.token_count < cfg.min_tokens
    /\ prev.token_count + chunk.token_count <= cfg.max_tokens
    /\ prev.section_path = chunk.section_path

\* the ceiling test made strict
MergeConditionBelowMax(prev, chunk, cfg) ==
    /\ prev.token_count < cfg.min_tokens
    /\ prev.token_count + chunk.token_count < cfg.max_tokens
    /\ prev.section_path = chunk.section_path

MergeCondition(prev, chunk, cfg) ==
    /\ prev.token_count < cfg.min_tokens
    /\ prev.token_count + chunk.token_count <= cfg.max_tokens
    /\ prev.section_path = chunk.section_path

\* the two texts joined without the blank line
MergedChunkGlued(prev, chunk, id) ==
    [id |-> id,
     text |-> prev.text \o chunk.text,
     book_id |-> prev.book_id,
     book_title |-> prev.book_title,
     book_author |-> prev.book_author,
     section_path |-> prev.section_path,
     section_type |-> prev.section_type,
     chunk_index |-> 0,
     total_chunks_in_section |-> 1,
     language |-> prev.language,
     char_start |-> prev.char_start,
     char_end |-> chunk.char_end,
     token_count |-> prev.token_count + chunk.token_count]

\* the earlier chunk's char_end kept
MergedChunkKeepsEnd(prev, chunk, id) ==
    [id |-> id,
     text |-> prev.text \o <<"\n", "\n">> \o chunk.text,
     book_id |-> prev.book_id,
     book_title |-> prev.book_title,
     book_author |-> prev.book_author,
     section_path |-> prev.section_path,
     section_type |-> prev.section_type,
     chunk_index |-> 0,
     total_chunks_in_section |-> 1,
     language |-> prev.language,
     char_start |-> prev.char_start,
     char_end |-> prev.char_end,
     token_count |-> prev.token_count + chunk.token_count]

MergedChunk(prev, chunk, id) ==
    [id |-> id,
     text |-> prev.text \o <<"\n", "\n">> \o chunk.text,
     book_id |-> prev.book_id,
     book_title |-> prev.book_title,
     book_author |-> prev.book_author,
     section_path |-> prev.section_path,
     section_type |-> prev.section_type,
     chunk_index |-> 0,
     total_chunks_in_section |-> 1,
     language |-> prev.language,
     char_start |-> prev.char_start,
     char_end |-> chunk.char_end,
     token_count |-> prev.token_count + chunk.token_count]

\* the merged chunk appended instead of put in the place of merged[-1]
RECURSIVE MergeLoopKeepsBoth(_, _, _, _, _)
MergeLoopKeepsBoth(merged, rest, cfg, rng, draws) ==
    IF Len(rest) = 0 THEN merged
    ELSE IF MergeCondition(merged[Len(merged)], rest[1], cfg)
         THEN MergeLoopKeepsBoth(
                  Append(merged, MergedChunk(merged[Len(merged)], rest[1],
                                             uuid4(rng, draws + 1))),
                  Tail(rest), cfg, rng, draws + 1)
         ELSE MergeLoopKeepsBoth(Append(merged, rest[1]), Tail(rest), cfg, rng, draws)

\* the loop over chunks[1:], merged being the accumulator; every merge
\* constructs a Chunk, which draws the next value of the uuid4 stream
RECURSIVE MergeLoop(_, _, _, _, _)
MergeLoop(merged, rest, cfg, rng, draws) ==
    IF Len(rest) = 0 THEN merged
    ELSE LET prev == merged[Len(merged)]
             chunk == rest[1]
         IN  IF MergeCondition(prev, chunk, cfg)
             THEN MergeLoop([merged EXCEPT ![Len(merged)] =
                                MergedChunk(prev, chunk, uuid4(rng, draws + 1))],
                            Tail(rest), cfg, rng, draws + 1)
             ELSE MergeLoop(Append(merged, chunk), Tail(rest), cfg, rng, draws)

_merge_small_chunks(chunks, cfg, rng, draws) ==
    IF Len(chunks) = 0 THEN << >>
    ELSE MergeLoop(<<chunks[1]>>, Tail(chunks), cfg, rng, draws)

\* ---------------------------------------------------------- the index assigner
\* numbering the whole list instead of each group
AssignIndicesUngrouped(chunks) ==
    [k \in 1..Len(chunks) |->
        [chunks[k] EXCEPT !.chunk_index = k - 1,
                          !.total_chunks_in_section = Len(chunks)]]

\* the position counted within the run of adjacent chunks of the path
AssignIndicesAdjacentRuns(chunks) ==
    [k \in 1..Len(chunks) |->
        [chunks[k] EXCEPT
            !.chunk_index =
                Cardinality({j \in 1..(k - 1) :
                                \A i \in j..k :
                                    chunks[i].section_path = chunks[k].section_path}),
            !.total_chunks_in_section =
                Cardinality({j \in 1..Len(chunks) :
                                chunks[j].section_path = chunks[k].section_path})]]

\* groups.setdefault(path, []).append(chunk), then enumerate each group:
\* a chunk's index is the number of chunks of its path before it in the list
_assign_indices(chunks) ==
    [k \in 1..Len(chunks) |->
        [chunks[k] EXCEPT
            !.chunk_index =
                Cardinality({j \in 1..(k - 1) :
                                chunks[j].section_path = chunks[k].section_path}),
            !.total_chunks_in_section =
                Cardinality({j \in 1..Len(chunks) :
                                chunks[j].section_path = chunks[k].section_path})]]

\* ------------------------------------------------------- HalachicChunker.chunk
\* book_id = None
NoBookId == << >>

\* the empty string passed as book_id
EmptyBookId == <<"", 0>>

\* book_id or str(uuid4()): None and the empty string both count as false
IsFalsy(book_id) == book_id = NoBookId \/ book_id = EmptyBookId

\* not text
IsEmptyString(text) == Len(text) = 0

\* not text.strip()
IsBlank(text) == Len(strip(text)) = 0

\* What one call that got past the blank check hands back: the returned
\* list (chunks = _assign_indices(merged)) and what each stage has produced
\* (ran lists the stages in the order they ran).
ChunkResult(markers, sections, assembled, merged) ==
    [ran |-> <<"scanner",
               IF Len(sections.roots) > 0 THEN "assembler" ELSE "fallback",
               "merger", "indexer">>,
     markers |-> markers,
     sections |-> sections,
     assembled |-> assembled,
     merged |-> merged,
     chunks |-> _assign_indices(merged)]

\* chunks = self._merge_small_chunks(chunks), then the index pass
ChunkMerge(markers, sections, assembled, cfg, rng, draws) ==
    ChunkResult(markers, sections, assembled,
                _merge_small_chunks(assembled, cfg, rng, draws + Len(assembled)))

\* if sections: _chunk_sections(sections, meta) else: _chunk_by_paragraphs;
\* every Chunk the stage constructs draws its id from the call's stream
ChunkAssemble(text, markers, sections, cfg, meta, rng, draws) ==
    ChunkMerge(markers, sections,
               StampIds(IF Len(sections.roots) > 0
                        THEN _chunk_sections(sections.secs, sections.roots,
                                             cfg, meta, << >>)
                        ELSE _chunk_by_paragraphs(text, cfg, meta),
                        rng, draws),
               cfg, rng, draws)

\* One call of chunk(parsed_book, book_id) under configuration cfg with
\* random stream rng.  A blank text returns [] before any stage runs.
chunk(parsed_book, book_id, cfg, rng) ==
    LET text == parsed_book.raw_text
        draws == IF IsFalsy(book_id) THEN 1 ELSE 0
        effective_book_id == IF IsFalsy(book_id) THEN uuid4(rng, 1) ELSE book_id
        meta == [book_id |-> effective_book_id,
                 title |-> parsed_book.title,
                 author |-> parsed_book.author,
                 language |-> parsed_book.language]
    IN  IF IsBlank(text)
        THEN [ran |-> << >>, markers |-> << >>, sections |-> EmptyForest,
              assembled |-> << >>, merged |-> << >>, chunks |-> << >>]
        ELSE ChunkAssemble(text, SortedMarkers(text), _detect_sections(text),
                           cfg, meta, rng, draws)

\* ------------------------------------------------------------ the input space
\* The texts are the concatenations of at most MaxPieces pieces: a word
\* that ends its line, a newline, and one heading of each kind.
Pieces ==
    { <<"w", "\n">>,
      <<"\n">>,
      <<"P", "R", "Q", " ", "A">>,
      <<"S", "Y", "M", "N", " ", "A">>,
      <<"S", "E", "Y", "F", " ", "A">>,
      <<"A", ".">>,
      <<"S", "'", "Q", " ", "A">> }

RECURSIVE TextsUpTo(_)
TextsUpTo(n) ==
    IF n = 0 THEN {<< >>}
    ELSE LET shorter == TextsUpTo(n - 1)
         IN  shorter \cup {t \o p : t \in shorter, p \in Pieces}

Texts == TextsUpTo(MaxPieces)

\* ChunkingConfig accepts any four integers (src/src/config.py declares the
\* fields and no validator); the model draws them from 1..MaxCfg
CfgValues == 1..MaxCfg

BookIds == {NoBookId, EmptyBookId, <<"custom-id", 0>>}

TheBook(text) ==
    [title |-> "Test Book", author |-> "Test Author", language |-> "he",
     raw_text |-> text]

\* ---------------------------------------------------------------- the state
VARIABLES
    pc,          \* "init", "configured", "ready", "done"
    config,      \* the ChunkingConfig object, NoConfig before it is built
    chunker,     \* HalachicChunker._config, NoConfig before it is built
    parsed_book, \* the argument of the last call of chunk()
    book_id,     \* the book_id argument of the last call
    calls,       \* the number of calls of chunk() made so far; the n-th
                 \* call draws its uuids from random stream n
    call,        \* what the last call ran and returned
    again        \* the merger's output when applied to its own output

vars == <<pc, config, chunker, parsed_book, book_id, calls, call, again>>

NoConfig == [target_tokens |-> 0, max_tokens |-> 0, min_tokens |-> 0,
             overlap_tokens |-> 0, built |-> FALSE]

NoCall == [ran |-> << >>, markers |-> << >>, sections |-> EmptyForest,
           assembled |-> << >>, merged |-> << >>, chunks |-> << >>]

Init ==
    /\ pc = "init"
    /\ config = NoConfig
    /\ chunker = NoConfig
    /\ parsed_book = TheBook(<< >>)
    /\ book_id = NoBookId
    /\ calls = 0
    /\ call = NoCall
    /\ again = << >>

\* ChunkingConfig(target_tokens=t, max_tokens=mx, min_tokens=mn,
\* overlap_tokens=ov): pydantic stores the four integers
NewChunkingConfig(t, mx, mn, ov) ==
    /\ pc = "init"
    /\ config' = [target_tokens |-> t, max_tokens |-> mx, min_tokens |-> mn,
                  overlap_tokens |-> ov, built |-> TRUE]
    /\ pc' = "configured"
    /\ UNCHANGED <<chunker, parsed_book, book_id, calls, call, again>>

\* HalachicChunker(config)
NewHalachicChunker ==
    /\ pc = "configured"
    /\ chunker' = config
    /\ pc' = "ready"
    /\ UNCHANGED <<config, parsed_book, book_id, calls, call, again>>

\* chunker.chunk(parsed_book, book_id)
Chunk(text, bid) ==
    /\ pc = "ready"
    /\ parsed_book' = TheBook(text)
    /\ book_id' = bid
    /\ calls' = calls + 1
    /\ call' = chunk(TheBook(text), bid, chunker, calls + 1)
    /\ pc' = "done"
    /\ UNCHANGED <<config, chunker, again>>

\* chunker.chunk(parsed_book, book_id) once more, on the same arguments
ChunkAgain ==
    /\ pc = "done"
    /\ calls < MaxCalls
    /\ calls' = calls + 1
    /\ call' = chunk(parsed_book, book_id, chunker, calls + 1)
    /\ UNCHANGED <<pc, config, chunker, parsed_book, book_id, again>>

Next ==
    \/ \E t \in CfgValues, mx \in CfgValues, mn \in CfgValues, ov \in CfgValues :
          NewChunkingConfig(t, mx, mn, ov)
    \/ NewHalachicChunker
    \/ \E text \in Texts, bid \in BookIds : Chunk(text, bid)
    \/ ChunkAgain

Spec == Init /\ [][Next]_vars

\* ------------------------------------------- the merger on arbitrary chunk lists
\* _merge_small_chunks as a function of its own: the lists are all lists of
\* at most MaxChunks chunks of 1..MaxTokens words under one of two section
\* paths, laid out one after the other in the document
MergePaths == { <<"A">>, <<"S", "Y", "M", "N", " ", "A">> }

ChunkShapes == [tokens : 1..MaxTokens, path : MergePaths]

ShapeLists == UNION {[1..n -> ChunkShapes] : n \in 0..MaxChunks}

\* a text of n words
WordsText(n) == IF n = 0 THEN << >> ELSE join([k \in 1..n |-> <<"w">>])

MergeMeta == [book_id |-> <<"custom-id", 0>>, title |-> "Test Book",
              author |-> "Test Author", language |-> "he"]

ChunksOfShapes(shapes) ==
    StampIds([k \in 1..Len(shapes) |->
                 NewChunk(WordsText(shapes[k].tokens), MergeMeta, shapes[k].path,
                          IF shapes[k].path = <<"A">> THEN "halacha" ELSE "siman",
                          10 * (k - 1), 10 * k, shapes[k].tokens)],
             1, 0)

InitMerge ==
    /\ pc = "merge"
    /\ \E mn \in 1..MaxTokens, mx \in 1..MaxTokens :
          /\ config = [target_tokens |-> mx, max_tokens |-> mx, min_tokens |-> mn,
                       overlap_tokens |-> 1, built |-> TRUE]
          /\ chunker = config
    /\ parsed_book = TheBook(<< >>)
    /\ book_id = MergeMeta.book_id
    /\ calls = 1
    /\ \E shapes \in ShapeLists :
          call = [NoCall EXCEPT !.assembled = ChunksOfShapes(shapes)]
    /\ again = << >>

\* chunks = self._merge_small_chunks(chunks)
MergeOnce ==
    /\ pc = "merge"
    /\ call' = [call EXCEPT !.merged =
                    _merge_small_chunks(call.assembled, chunker, calls,
                                        Len(call.assembled))]
    /\ pc' = "merged"
    /\ UNCHANGED <<config, chunker, parsed_book, book_id, calls, again>>

\* self._merge_small_chunks(chunks) applied to the list it returned
MergeAgain ==
    /\ pc = "merged"
    /\ again' = _merge_small_chunks(call.merged, chunker, calls,
                                    2 * Len(call.assembled) - Len(call.merged))
    /\ pc' = "remerged"
    /\ UNCHANGED <<config, chunker, parsed_book, book_id, calls, call>>

NextMerge == MergeOnce \/ MergeAgain

SpecMerge == InitMerge /\ [][NextMerge]_vars

\* ------------------------------------------- the splitter on long paragraphs
\* chunk() on texts that make the sliding-window splitter run: a
\* paragraph of n pairwise different words (w, ww, www, ...), with or
\* without a one-word paragraph before it and after it, and with or
\* without a siman heading on the first line, which turns the whole text
\* into one leaf section.  The configuration is any four integers of
\* 1..MaxTokens.
DistinctWords(n) == [k \in 1..n |-> [i \in 1..k |-> "w"]]

BlankLine == <<"\n", "\n">>

WindowTexts ==
    { heading \o before \o join(DistinctWords(n)) \o after :
        heading \in {<< >>, <<"S", "Y", "M", "N", " ", "A", "\n">>},
        before \in {<< >>, <<"x">> \o BlankLine},
        after \in {<< >>, BlankLine \o <<"y">>},
        n \in 1..MaxWords }

InitWindow ==
    /\ pc = "ready"
    /\ \E t \in 1..MaxTokens, mx \in 1..MaxTokens,
          mn \in 1..MaxTokens, ov \in 1..MaxTokens :
          /\ config = [target_tokens |-> t, max_tokens |-> mx, min_tokens |-> mn,
                       overlap_tokens |-> ov, built |-> TRUE]
          /\ chunker = config
    /\ parsed_book = TheBook(<< >>)
    /\ book_id = NoBookId
    /\ calls = 0
    /\ call = NoCall
    /\ again = << >>

NextWindow == \E text \in WindowTexts : Chunk(text, NoBookId)

SpecWindow == InitWindow /\ [][NextWindow]_vars

\* ------------------------------------- the tree builder on arbitrary marker lists
\* _detect_sections from the point where the scan has filled its marker
\* list: the sort, the loop of _build_section_tree one marker at a time,
\* and _chunk_sections on the forest it returns.  The marker lists are all
\* lists of at most MaxMarkers markers the scan loop can append: kind by
\* kind in the order of STRUCTURE_PATTERNS, the markers of one kind at
\* increasing offsets 0..MaxOffset of one text.  Markers of different
\* kinds may share an offset.
TreeText == <<"w", " ", "w", " ", " ", "w", "\n", "w">>

TreeTitles ==
    [k \in {"perek", "siman", "seif", "halacha", "siman_katan"} |->
        CASE k = "perek" -> <<"P", "R", "Q", " ", "A">>
          [] k = "siman" -> <<"S", "Y", "M", "N", " ", "A">>
          [] k = "seif" -> <<"S", "E", "Y", "F", " ", "A">>
          [] k = "halacha" -> <<"A">>
          [] k = "siman_katan" -> <<"S", "'", "Q", " ", "A">>]

\* the markers of the hits in the order the scan appends them: kind k of
\* SectionTypes onward, offsets from position on
RECURSIVE ScanOrder(_, _, _)
ScanOrder(hits, k, position) ==
    IF k > Len(SectionTypes) THEN << >>
    ELSE IF position > MaxOffset THEN ScanOrder(hits, k + 1, 0)
    ELSE (IF <<k, position>> \in hits
          THEN <<[type |-> SectionTypes[k],
                  title |-> TreeTitles[SectionTypes[k]],
                  position |-> position,
                  level |-> HIERARCHY_LEVELS[SectionTypes[k]]]>>
          ELSE << >>)
         \o ScanOrder(hits, k, position + 1)

MarkerHits ==
    {hits \in SUBSET ((1..Len(SectionTypes)) \X (0..MaxOffset)) :
        Cardinality(hits) <= MaxMarkers}

InitTree ==
    /\ pc = "scanned"
    /\ config = NoConfig
    /\ chunker = NoConfig
    /\ parsed_book = TheBook(TreeText)
    /\ book_id = MergeMeta.book_id
    /\ calls = 0
    /\ \E hits \in MarkerHits :
          call = [NoCall EXCEPT !.markers = ScanOrder(hits, 1, 0)]
    /\ again = << >>

\* if not markers: return []
ReturnNoSections ==
    /\ pc = "scanned"
    /\ Len(call.markers) = 0
    /\ pc' = "built"
    /\ UNCHANGED <<config, chunker, parsed_book, book_id, calls, call, again>>

\* markers.sort(key=lambda m: m["position"]), then roots = [], stack = []
SortMarkers ==
    /\ pc = "scanned"
    /\ Len(call.markers) > 0
    /\ call' = [call EXCEPT !.markers = SortByPosition(call.markers),
                            !.sections = EmptyForest]
    /\ pc' = "building"
    /\ UNCHANGED <<config, chunker, parsed_book, book_id, calls, again>>

\* one iteration of the loop of _build_section_tree; calls counts the
\* markers the loop has processed
BuildNext ==
    /\ pc = "building"
    /\ calls < Len(call.markers)
    /\ call' = [call EXCEPT !.sections =
                    BuildStep(call.sections, call.markers,
                              parsed_book.raw_text, calls + 1)]
    /\ calls' = calls + 1
    /\ UNCHANGED <<pc, config, chunker, parsed_book, book_id, again>>

\* return roots
ReturnRoots ==
    /\ pc = "building"
    /\ calls = Len(call.markers)
    /\ pc' = "built"
    /\ UNCHANGED <<config, chunker, parsed_book, book_id, calls, call, again>>

\* _chunk_sections(sections, ...) of a chunker whose max_tokens and
\* target_tokens are mx, on the forest just built
ChunkSections(mx) ==
    /\ pc = "built"
    /\ config' = [target_tokens |-> mx, max_tokens |-> mx, min_tokens |-> 1,
                  overlap_tokens |-> 1, built |-> TRUE]
    /\ chunker' = config'
    /\ call' = [call EXCEPT !.assembled =
                    StampIds(_chunk_sections(call.sections.secs,
                                             call.sections.roots, config',
                                             MergeMeta, << >>),
                             1, 0)]
    /\ pc' = "assembled"
    /\ UNCHANGED <<parsed_book, book_id, calls, again>>

NextTree ==
    \/ ReturnNoSections
    \/ SortMarkers
    \/ BuildNext
    \/ ReturnRoots
    \/ \E mx \in 1..MaxTokens : ChunkSections(mx)

SpecTree == InitTree /\ [][NextTree]_vars

\* ------------------------------------------ the fallback on unstructured texts
\* chunk() on every text of at most MaxText characters over a word
\* character, a space and a newline.  No pattern needs fewer than one
\* Hebrew letter, so every such text takes the fallback; paragraphs come
\* with and without whitespace around them, below, at and above max_tokens.
RECURSIVE PlainTextsUpTo(_)
PlainTextsUpTo(n) ==
    IF n = 0 THEN {<< >>}
    ELSE LET shorter == PlainTextsUpTo(n - 1)
         IN  shorter \cup {Append(t, c) : t \in shorter, c \in {"w", " ", "\n"}}

PlainTexts == PlainTextsUpTo(MaxText)

InitPara ==
    /\ pc = "ready"
    /\ \E t \in CfgValues, mx \in CfgValues :
          /\ config = [target_tokens |-> t, max_tokens |-> mx, min_tokens |-> 1,
                       overlap_tokens |-> 1, built |-> TRUE]
          /\ chunker = config
    /\ parsed_book = TheBook(<< >>)
    /\ book_id = NoBookId
    /\ calls = 0
    /\ call = NoCall
    /\ again = << >>

NextPara == pc = "ready" /\ \E text \in PlainTexts : Chunk(text, NoBookId)

SpecPara == InitPara /\ [][NextPara]_vars

\* ------------------------------------- the sliding-window splitter step by step
\* _sliding_window_chunks on a blob of its own, one loop iteration at a
\* time.  call holds the frame of the running call: its arguments and its
\* locals words, pos and chunks; pc is "returned" after a return and
\* "raised" after an exception.  The blobs have 0..MaxWords pairwise
\* different words, with or without whitespace around them, and one blob
\* of eleven words and 55 characters, the shortest on which the floating
\* point estimate of the offsets leaves the exact quotient; the
\* configuration is built from any integers from -1 on, since
\* ChunkingConfig accepts every integer.
ElevenWords ==
    [k \in 1..11 |->
        IF k = 11 THEN <<"w", "w", "w", "w", "w">>
        ELSE [i \in 1..4 |-> IF i = 1 + (k % 4) THEN "x"
                             ELSE IF i = 1 + ((k \div 4) % 4) THEN "y"
                             ELSE "w"]]

SplitTexts ==
    { around[1] \o (IF n = 0 THEN << >> ELSE join(DistinctWords(n))) \o around[2] :
        n \in 0..MaxWords, around \in {<< << >>, << >> >>, << <<" ">>, <<"\n">> >>} }
      \cup {join(ElevenWords)}

SplitValues == (0 - 1)..MaxTokens

\* self._sliding_window_chunks(text, ..., section_path, section_type,
\* char_offset) is called and runs its first line, words = text.split()
CallSplitter(text, char_offset) ==
    /\ pc = "ready"
    /\ calls' = calls + 1
    /\ call' = [text |-> text, section_path |-> <<"A">>,
                section_type |-> "halacha", char_offset |-> char_offset,
                words |-> split(text), pos |-> 0, chunks |-> << >>]
    /\ pc' = "called"
    /\ UNCHANGED <<config, chunker, parsed_book, book_id, again>>

\* if not words: return []
ReturnNoWords ==
    /\ pc = "called"
    /\ Len(call.words) = 0
    /\ pc' = "returned"
    /\ UNCHANGED <<config, chunker, parsed_book, book_id, calls, call, again>>

\* if len(words) <= max_tokens: return [Chunk(text=text.strip(), ...)]
ReturnWholeBlob ==
    /\ pc = "called"
    /\ Len(call.words) > 0
    /\ Len(call.words) <= chunker.max_tokens
    /\ call' = [call EXCEPT
                  !.chunks = <<[NewChunk(strip(call.text), MergeMeta,
                                         call.section_path, call.section_type,
                                         call.char_offset,
                                         call.char_offset + Len(call.text),
                                         Len(call.words))
                                  EXCEPT !.id = uuid4(calls, 1)]>>]
    /\ pc' = "returned"
    /\ UNCHANGED <<config, chunker, parsed_book, book_id, calls, again>>

\* chunks = []; step = max(target - overlap, 1); pos = 0
EnterLoop ==
    /\ pc = "called"
    /\ Len(call.words) > 0
    /\ Len(call.words) > chunker.max_tokens
    /\ call' = [call EXCEPT !.pos = 0, !.chunks = << >>]
    /\ pc' = "loop"
    /\ UNCHANGED <<config, chunker, parsed_book, book_id, calls, again>>

\* one iteration of while pos < len(words): append the window, then break
\* or advance pos by step
WindowIterate ==
    /\ pc = "loop"
    /\ call.pos < Len(call.words)
    /\ Len(PySlice(call.words, call.pos,
                   WindowEnd(call.pos, chunker, Len(call.words)))) > 0
    /\ Len(call.chunks) <= Len(call.words)
    /\ call' = [call EXCEPT
                  !.chunks = Append(@,
                      [WindowChunk(call.words, call.text, call.pos, chunker,
                                   MergeMeta, call.section_path,
                                   call.section_type, call.char_offset)
                         EXCEPT !.id = uuid4(calls, Len(call.chunks) + 1)]),
                  !.pos = IF WindowEnd(call.pos, chunker, Len(call.words))
                               >= Len(call.words)
                          THEN @ ELSE @ + WindowStep(chunker)]
    /\ pc' = IF WindowEnd(call.pos, chunker, Len(call.words)) >= Len(call.words)
             THEN "returned" ELSE "loop"
    /\ UNCHANGED <<config, chunker, parsed_book, book_id, calls, again>>

\* chunk_words[0] on an empty window (line 415): IndexError leaves the call
RaiseIndexError ==
    /\ pc = "loop"
    /\ call.pos < Len(call.words)
    /\ Len(PySlice(call.words, call.pos,
                   WindowEnd(call.pos, chunker, Len(call.words)))) = 0
    /\ pc' = "raised"
    /\ UNCHANGED <<config, chunker, parsed_book, book_id, calls, call, again>>

\* the while condition fails: return chunks
ExitLoop ==
    /\ pc = "loop"
    /\ call.pos >= Len(call.words)
    /\ pc' = "returned"
    /\ UNCHANGED <<config, chunker, parsed_book, book_id, calls, call, again>>

\* the steps of a running call
RunSplitter ==
    \/ ReturnNoWords
    \/ ReturnWholeBlob
    \/ EnterLoop
    \/ WindowIterate
    \/ RaiseIndexError
    \/ ExitLoop

NextSplit ==
    \/ \E t \in SplitValues, mx \in SplitValues, ov \in SplitValues :
          NewChunkingConfig(t, mx, 1, ov)
    \/ NewHalachicChunker
    \/ \E text \in SplitTexts, char_offset \in {0, MaxOffset} :
          CallSplitter(text, char_offset)
    \/ RunSplitter

SpecSplit == Init /\ [][NextSplit]_vars

\* a running call is always scheduled: it is one thread of straight-line code
SpecSplitFair == SpecSplit /\ WF_vars(RunSplitter)

\* ---------------------------------------------- the merger one chunk at a time
\* _merge_small_chunks on the lists of SpecMerge, one loop iteration at a
\* time.  call.assembled is the argument, call.merged the accumulator
\* merged, call.rest what the for loop has still to visit and call.draws
\* the number of uuid4 values the call's stream has given out.
\* merged = [chunks[0]]
StartPass ==
    /\ pc = "merge"
    /\ Len(call.assembled) > 0
    /\ call' = [ran |-> call.ran, markers |-> call.markers,
                sections |-> call.sections, assembled |-> call.assembled,
                merged |-> <<call.assembled[1]>>, chunks |-> call.chunks,
                rest |-> Tail(call.assembled), draws |-> Len(call.assembled)]
    /\ pc' = "pass"
    /\ UNCHANGED <<config, chunker, parsed_book, book_id, calls, again>>

\* if not chunks: return []
ReturnNothing ==
    /\ pc = "merge"
    /\ Len(call.assembled) = 0
    /\ pc' = "merged"
    /\ UNCHANGED <<config, chunker, parsed_book, book_id, calls, call, again>>

\* one iteration of for chunk in chunks[1:]
MergeNext ==
    /\ pc = "pass"
    /\ Len(call.rest) > 0
    /\ call' = IF MergeCondition(call.merged[Len(call.merged)], call.rest[1], chunker)
               THEN [call EXCEPT
                       !.merged[Len(call.merged)] =
                           MergedChunk(call.merged[Len(call.merged)], call.rest[1],
                                       uuid4(calls, call.draws + 1)),
                       !.rest = Tail(@),
                       !.draws = @ + 1]
               ELSE [call EXCEPT !.merged = Append(@, call.rest[1]),
                                 !.rest = Tail(@)]
    /\ UNCHANGED <<pc, config, chunker, parsed_book, book_id, calls, again>>

\* return merged
ReturnMerged ==
    /\ pc = "pass"
    /\ Len(call.rest) = 0
    /\ pc' = "merged"
    /\ UNCHANGED <<config, chunker, parsed_book, book_id, calls, call, again>>

NextPass == StartPass \/ ReturnNothing \/ MergeNext \/ ReturnMerged

SpecPass == InitMerge /\ [][NextPass]_vars

\* ------------------------------------------- the index assigner on merged lists
\* return self._assign_indices(chunks), on the lists the merger returns for
\* the lists of SpecMerge
AssignIndices ==
    /\ pc = "merged"
    /\ call' = [call EXCEPT !.chunks = _assign_indices(call.merged)]
    /\ pc' = "indexed"
    /\ UNCHANGED <<config, chunker, parsed_book, book_id, calls, again>>

NextIndex == MergeOnce \/ AssignIndices

SpecIndex == InitMerge /\ [][NextIndex]_vars

\* ------------------------------------------------------------------ properties
\* all four bounds > 0, min_tokens <= target_tokens <= max_tokens and
\* overlap_tokens < target_tokens
ValidConfig(c) ==
    /\ c.target_tokens > 0 /\ c.max_tokens > 0
    /\ c.min_tokens > 0 /\ c.overlap_tokens > 0
    /\ c.min_tokens <= c.target_tokens
    /\ c.target_tokens <= c.max_tokens
    /\ c.overlap_tokens < c.target_tokens

\* chunk() has returned
Returned == pc = "done"

\* some leaf section of the last call holds more than max_tokens words
OversizedLeaf ==
    \E i \in 1..Len(call.sections.secs) :
        /\ Len(call.sections.secs[i].subsections) = 0
        /\ estimate_tokens(call.sections.secs[i].text) > chunker.max_tokens

\* C1 (token ceiling): under a valid configuration every chunk of the list
\* chunk() returns has token_count <= max_tokens.
TokenCeiling ==
    (Returned /\ ValidConfig(chunker)) =>
        \A k \in 1..Len(call.chunks) :
            call.chunks[k].token_count <= chunker.max_tokens

\* a valid configuration, an oversized leaf split into several windows
TokenCeilingWitness ==
    /\ Returned /\ ValidConfig(chunker)
    /\ OversizedLeaf
    /\ Len(call.chunks) >= 2

\* the positions of the chunks that share chunk k's section_path
Group(chunks, k) ==
    {j \in 1..Len(chunks) : chunks[j].section_path = chunks[k].section_path}

\* C2 (index contract): within each group of returned chunks that share a
\* section_path, the chunk_index values are exactly 0..n-1, n the size of
\* the group, and every chunk of the group has total_chunks_in_section = n.
IndexContract ==
    Returned =>
        \A k \in 1..Len(call.chunks) :
            LET group == Group(call.chunks, k)
                n == Cardinality(group)
            IN  /\ call.chunks[k].total_chunks_in_section = n
                /\ call.chunks[k].chunk_index \in 0..(n - 1)
                /\ {call.chunks[j].chunk_index : j \in group} = 0..(n - 1)

\* two groups, one of them of more than one chunk
IndexContractWitness ==
    /\ Returned
    /\ \E j, k \in 1..Len(call.chunks) :
          /\ call.chunks[j].section_path # call.chunks[k].section_path
          /\ call.chunks[k].chunk_index >= 1

\* the words of a text, as a set
Words(t) == {split(t)[i] : i \in 1..Len(split(t))}

\* C3 (completeness of coverage): every word of a non-empty input appears
\* in at least one returned chunk.
Coverage ==
    Returned =>
        \A w \in Words(parsed_book.raw_text) :
            \E k \in 1..Len(call.chunks) : w \in Words(call.chunks[k].text)

\* C5 (invalid configuration rejected): a ChunkingConfig that exists
\* satisfies all four bounds > 0, min_tokens <= target_tokens <= max_tokens
\* and overlap_tokens < target_tokens.
InvalidConfigRejected == config.built => ValidConfig(config)

WhitespaceOnly(t) == \A i \in 1..Len(t) : t[i] \in WS

\* C6 (empty or whitespace-only input): chunk() on a text made of
\* whitespace only returns the empty list and runs none of the scanner,
\* assembler, merger and index assigner.
BlankInputEmptyOutput ==
    (Returned /\ WhitespaceOnly(parsed_book.raw_text)) =>
        /\ call.chunks = << >>
        /\ call.ran = << >>

\* a call on a non-empty text of whitespace
BlankInputWitness ==
    /\ Returned
    /\ Len(parsed_book.raw_text) > 0
    /\ WhitespaceOnly(parsed_book.raw_text)

NonDecreasingStart(chunks) ==
    \A k \in 1..(Len(chunks) - 1) : chunks[k].char_start <= chunks[k + 1].char_start

StartsOf(chunks) == [k \in 1..Len(chunks) |-> chunks[k].char_start]

\* a is b with some entries left out
RECURSIVE IsSubsequence(_, _)
IsSubsequence(a, b) ==
    IF Len(a) = 0 THEN TRUE
    ELSE IF Len(b) = 0 THEN FALSE
    ELSE IF a[1] = b[1] THEN IsSubsequence(Tail(a), Tail(b))
    ELSE IsSubsequence(a, Tail(b))

\* the merger of the last call has merged at least one pair
MergeHappened == Len(call.merged) < Len(call.assembled)

\* C7 (document order): the assembled list, the merged list and the
\* returned list are in non-decreasing char_start order, and the merger
\* keeps the char_start values it keeps in their order.
DocumentOrder ==
    Returned =>
        /\ NonDecreasingStart(call.assembled)
        /\ NonDecreasingStart(call.merged)
        /\ NonDecreasingStart(call.chunks)
        /\ IsSubsequence(StartsOf(call.merged), StartsOf(call.assembled))
        /\ StartsOf(call.chunks) = StartsOf(call.merged)

\* a merge has happened and two chunks at different offsets are returned
DocumentOrderWitness ==
    /\ Returned
    /\ MergeHappened
    /\ Len(call.chunks) >= 2
    /\ call.chunks[1].char_start < call.chunks[2].char_start

\* C8 (token-count consistency): every returned chunk has token_count
\* equal to the number of whitespace-delimited words of its text.
TokenCountConsistent ==
    Returned =>
        \A k \in 1..Len(call.chunks) :
            call.chunks[k].token_count = estimate_tokens(call.chunks[k].text)

\* a returned chunk that was created by merging
TokenCountWitness ==
    /\ Returned
    /\ \E k \in 1..Len(call.chunks) :
          /\ call.chunks[k].token_count >= 2
          /\ \E j \in 1..Len(call.assembled) :
                /\ call.assembled[j].char_start = call.chunks[k].char_start
                /\ call.assembled[j].token_count < call.chunks[k].token_count

\* no pattern matches anywhere in the text
NoMarker(t) ==
    \A k \in 1..Len(SectionTypes) :
        \A i \in 0..(Len(t) - 1) : MatchAt(SectionTypes[k], t, i) < 0

UsedFallback == Len(call.ran) >= 2 /\ call.ran[2] = "fallback"

\* C10 (fallback selection): chunk() takes the paragraph fallback exactly
\* when the text is not blank and holds no marker; then every returned
\* chunk has section_type "paragraph" and an empty section_path, and when
\* a marker is found no returned chunk has section_type "paragraph".
FallbackSelection ==
    Returned =>
        /\ UsedFallback <=>
              (~WhitespaceOnly(parsed_book.raw_text) /\ NoMarker(parsed_book.raw_text))
        /\ UsedFallback =>
              \A k \in 1..Len(call.chunks) :
                  /\ call.chunks[k].section_type = "paragraph"
                  /\ call.chunks[k].section_path = << >>
        /\ ~UsedFallback =>
              \A k \in 1..Len(call.chunks) :
                  call.chunks[k].section_type # "paragraph"

\* the fallback has split a paragraph into windows and merged some of them
FallbackSelectionWitness ==
    /\ Returned
    /\ UsedFallback
    /\ MergeHappened
    /\ Len(call.chunks) >= 2

\* an adjacent pair of one section_path whose earlier chunk is below
\* min_tokens and whose token counts add up to at most max_tokens
MergeablePair(chunks, cfg) ==
    \E k \in 1..(Len(chunks) - 1) :
        /\ chunks[k].section_path = chunks[k + 1].section_path
        /\ chunks[k].token_count < cfg.min_tokens
        /\ chunks[k].token_count + chunks[k + 1].token_count <= cfg.max_tokens

\* C4 (idempotence of merge): the merger applied to its own output returns
\* the same list, and its output holds no adjacent pair it would merge.
MergeIdempotent ==
    /\ pc \in {"merged", "remerged"} => ~MergeablePair(call.merged, chunker)
    /\ pc = "remerged" => again = call.merged

\* the first pass has merged, the second pass has run, and the output keeps
\* an under-sized chunk next to a chunk of its path that does not fit
MergeIdempotentWitness ==
    /\ pc = "remerged"
    /\ MergeHappened
    /\ \E k \in 1..(Len(call.merged) - 1) :
          /\ call.merged[k].section_path = call.merged[k + 1].section_path
          /\ call.merged[k].token_count < chunker.min_tokens

\* what a caller can observe of a chunk apart from the generated identifiers
Observable(c) ==
    [text |-> c.text, section_path |-> c.section_path,
     section_type |-> c.section_type, char_start |-> c.char_start,
     char_end |-> c.char_end, token_count |-> c.token_count,
     chunk_index |-> c.chunk_index,
     total_chunks_in_section |-> c.total_chunks_in_section]

ObservableList(chunks) == [k \in 1..Len(chunks) |-> Observable(chunks[k])]

\* C9 (determinism): a second run of chunk() on the same text under the
\* same configuration returns a list of the same length that agrees with
\* the first position by position on text, section_path, section_type,
\* char_start, char_end, token_count, chunk_index and
\* total_chunks_in_section.
Determinism ==
    [][(pc = "done" /\ pc' = "done") =>
          ObservableList(call'.chunks) = ObservableList(call.chunks)]_vars

\* a second run has returned chunks whose generated book id is its own
DeterminismWitness ==
    /\ Returned
    /\ calls >= 2
    /\ book_id = NoBookId
    /\ Len(call.chunks) >= 2
    /\ call.chunks[1].book_id = uuid4(calls, 1)

\* the texts the last call handed to the sliding-window splitter: the text
\* of every leaf section, or else every trimmed paragraph, of more than
\* max_tokens words
SplitBlobs ==
    IF Len(call.sections.roots) > 0
    THEN {call.sections.secs[i].text :
            i \in {q \in 1..Len(call.sections.secs) :
                     /\ Len(call.sections.secs[q].subsections) = 0
                     /\ estimate_tokens(call.sections.secs[q].text)
                          > chunker.max_tokens}}
    ELSE {strip(ReSplit(parsed_book.raw_text, 0, 0)[i]) :
            i \in {q \in 1..Len(ReSplit(parsed_book.raw_text, 0, 0)) :
                     estimate_tokens(strip(ReSplit(parsed_book.raw_text, 0, 0)[q]))
                       > chunker.max_tokens}}

FirstN(s, n) == SubSeq(s, 1, n)

LastN(s, n) == SubSeq(s, Len(s) - n + 1, Len(s))

\* the number of windows over n words: the first window that reaches the
\* last word
WindowCount(n, cfg) ==
    CHOOSE m \in 1..n :
        /\ (m - 1) * (cfg.target_tokens - cfg.overlap_tokens) + cfg.target_tokens >= n
        /\ \A q \in 1..(m - 1) :
              (q - 1) * (cfg.target_tokens - cfg.overlap_tokens) + cfg.target_tokens < n

\* the words window k is to hold: target_tokens words from word
\* (k - 1) * (target_tokens - overlap_tokens) on
WindowWords(words, k, cfg) ==
    SubSeq(words,
           (k - 1) * (cfg.target_tokens - cfg.overlap_tokens) + 1,
           Min2((k - 1) * (cfg.target_tokens - cfg.overlap_tokens)
                  + cfg.target_tokens, Len(words)))

\* chunks[j + 1 .. j + m] are the m windows over words, window k + 1
\* starting with the last overlap_tokens words of window k; the first of
\* them may carry merged text in front and the last merged text behind
WindowsAt(chunks, j, words, m, cfg) ==
    /\ \A k \in 1..m :
          /\ Len(split(chunks[j + k].text)) >= Len(WindowWords(words, k, cfg))
          /\ k > 1 =>
                FirstN(split(chunks[j + k].text), Len(WindowWords(words, k, cfg)))
                  = WindowWords(words, k, cfg)
          /\ k < m =>
                LastN(split(chunks[j + k].text), Len(WindowWords(words, k, cfg)))
                  = WindowWords(words, k, cfg)
    /\ \A k \in 1..(m - 1) :
          LastN(split(chunks[j + k].text), cfg.overlap_tokens)
            = FirstN(split(chunks[j + k + 1].text), cfg.overlap_tokens)

\* C11 (sliding-window overlap): under a valid configuration the windows
\* over a text of more than max_tokens words start target_tokens -
\* overlap_tokens words apart, so that each window begins with the last
\* overlap_tokens words of the window before it, both in the list the
\* assembler hands to the merger, where the windows are exactly these
\* words, and in the list chunk() returns.
WindowOverlap ==
    (Returned /\ ValidConfig(chunker)) =>
        \A blob \in SplitBlobs :
            /\ \E j \in 0..(Len(call.assembled)
                              - WindowCount(Len(split(blob)), chunker)) :
                  /\ WindowsAt(call.assembled, j, split(blob),
                               WindowCount(Len(split(blob)), chunker), chunker)
                  /\ \A k \in 1..WindowCount(Len(split(blob)), chunker) :
                        split(call.assembled[j + k].text)
                          = WindowWords(split(blob), k, chunker)
            /\ \E j \in 0..(Len(call.chunks)
                              - WindowCount(Len(split(blob)), chunker)) :
                  WindowsAt(call.chunks, j, split(blob),
                            WindowCount(Len(split(blob)), chunker), chunker)

\* a text was split into three windows or more, and the first of them was
\* merged into the paragraph before it
WindowOverlapWitness ==
    /\ Returned
    /\ ValidConfig(chunker)
    /\ \E blob \in SplitBlobs :
          /\ WindowCount(Len(split(blob)), chunker) >= 3
          /\ Len(call.merged) < Len(call.assembled)
          /\ Len(split(call.chunks[1].text)) > chunker.target_tokens

\* _chunk_sections has returned
Assembled == pc \in {"assembled", "done"}

\* the section whose subsections list holds section i, 0 for a root
ParentOf(secs, i) ==
    IF \E j \in 1..Len(secs) :
          \E q \in 1..Len(secs[j].subsections) : secs[j].subsections[q] = i
    THEN CHOOSE j \in 1..Len(secs) :
          \E q \in 1..Len(secs[j].subsections) : secs[j].subsections[q] = i
    ELSE 0

\* the titles from the root above section i down to section i
RECURSIVE TitlesTo(_, _)
TitlesTo(secs, i) ==
    IF ParentOf(secs, i) = 0 THEN <<secs[i].title>>
    ELSE Append(TitlesTo(secs, ParentOf(secs, i)), secs[i].title)

\* titles joined by " > "
RECURSIVE JoinTitles(_)
JoinTitles(titles) ==
    IF Len(titles) = 1 THEN titles[1]
    ELSE JoinTitles(SubSeq(titles, 1, Len(titles) - 1))
           \o <<" ", ">", " ">> \o titles[Len(titles)]

\* the leaves below the sections of a list, depth first, left to right
RECURSIVE LeavesOf(_, _)
LeavesOf(secs, sections) ==
    IF Len(sections) = 0 THEN << >>
    ELSE (IF Len(secs[sections[1]].subsections) = 0
          THEN <<sections[1]>>
          ELSE LeavesOf(secs, secs[sections[1]].subsections))
         \o LeavesOf(secs, Tail(sections))

\* how many chunks a leaf section yields: none for a blank text, one for
\* a text of at most max_tokens words, else as many as the splitter returns
LeafYield(section, cfg) ==
    IF estimate_tokens(section.text) <= cfg.max_tokens
    THEN (IF Len(strip(section.text)) > 0 THEN 1 ELSE 0)
    ELSE Len(_sliding_window_chunks(section.text, cfg, MergeMeta, << >>,
                                    section.section_type, section.char_start))

\* how many chunks the first n leaves of a list yield together
RECURSIVE YieldBefore(_, _, _, _)
YieldBefore(secs, leaves, n, cfg) ==
    IF n = 0 THEN 0
    ELSE YieldBefore(secs, leaves, n - 1, cfg) + LeafYield(secs[leaves[n]], cfg)

\* the positions in the assembled list of the chunks of the n-th leaf
SegmentOf(secs, leaves, n, cfg) ==
    (YieldBefore(secs, leaves, n - 1, cfg) + 1)..YieldBefore(secs, leaves, n, cfg)

\* C12 (structural path nesting): every chunk the assembler produces from
\* a leaf section has as section_path the titles of the leaf's ancestors
\* from the root down to the leaf, joined by " > ", and as section_type
\* the leaf's kind.
PathNesting ==
    Assembled =>
        \A n \in 1..Len(LeavesOf(call.sections.secs, call.sections.roots)) :
            \A k \in SegmentOf(call.sections.secs,
                               LeavesOf(call.sections.secs, call.sections.roots),
                               n, chunker) :
                /\ k <= Len(call.assembled)
                /\ call.assembled[k].section_path
                     = JoinTitles(TitlesTo(call.sections.secs,
                          LeavesOf(call.sections.secs, call.sections.roots)[n]))
                /\ call.assembled[k].section_type
                     = call.sections.secs[
                          LeavesOf(call.sections.secs, call.sections.roots)[n]
                       ].section_type

\* a leaf two levels below its root has yielded a chunk
PathNestingWitness ==
    /\ Assembled
    /\ \E n \in 1..Len(LeavesOf(call.sections.secs, call.sections.roots)) :
          /\ Len(TitlesTo(call.sections.secs,
                   LeavesOf(call.sections.secs, call.sections.roots)[n])) = 3
          /\ SegmentOf(call.sections.secs,
                       LeavesOf(call.sections.secs, call.sections.roots),
                       n, chunker) # {}

\* C13 (metadata pass-through): every returned chunk carries the title,
\* author and language of the parsed book and the book_id that was
\* supplied; when none was supplied (None), all chunks of the call carry
\* the one identifier the call generated.
MetadataPassThrough ==
    Returned =>
        \A k \in 1..Len(call.chunks) :
            /\ call.chunks[k].book_title = parsed_book.title
            /\ call.chunks[k].book_author = parsed_book.author
            /\ call.chunks[k].language = parsed_book.language
            /\ book_id # NoBookId => call.chunks[k].book_id = book_id
            /\ book_id = NoBookId => call.chunks[k].book_id = uuid4(calls, 1)

\* the loop of _build_section_tree processes its next marker in this step
BuildsNext == pc = "building" /\ calls' = calls + 1

\* the entries of a stack whose level is below level, in stack order
RECURSIVE EntriesBelow(_, _, _)
EntriesBelow(stack, secs, level) ==
    IF Len(stack) = 0 THEN << >>
    ELSE (IF secs[stack[1]].level < level THEN <<stack[1]>> ELSE << >>)
         \o EntriesBelow(Tail(stack), secs, level)

\* the levels on the stack grow strictly from the bottom to the top
StackLevelsGrow(forest) ==
    \A q \in 1..(Len(forest.stack) - 1) :
        forest.secs[forest.stack[q]].level < forest.secs[forest.stack[q + 1]].level

\* every subsection lies at a level strictly greater than its parent's
SubsectionsDeeper(forest) ==
    \A j \in 1..Len(forest.secs) :
        \A q \in 1..Len(forest.secs[j].subsections) :
            forest.secs[forest.secs[j].subsections[q]].level > forest.secs[j].level

\* C14 (stack discipline): when the loop processes a marker, every stack
\* entry whose level is >= the marker's level is popped before the new
\* section is pushed; after every marker the levels on the stack strictly
\* decrease from the top to the bottom, and every subsection of the forest
\* is at a strictly greater level than its parent.
StackDiscipline ==
    [][BuildsNext =>
          /\ call'.sections.stack
               = Append(EntriesBelow(call.sections.stack, call.sections.secs,
                                     call.markers[calls'].level),
                        calls')
          /\ StackLevelsGrow(call'.sections)
          /\ SubsectionsDeeper(call'.sections)]_vars

\* the third marker has popped a section and its subsection off the stack
StackDisciplineWitness ==
    /\ pc = "building"
    /\ calls = 3
    /\ call.sections.stack = <<3>>
    /\ call.sections.secs[1].subsections = <<2>>

\* the nearest marker before marker i whose level is strictly smaller
\* than marker i's, 0 when there is none
NearestBelow(markers, i) ==
    IF \E j \in 1..(i - 1) : markers[j].level < markers[i].level
    THEN SetMax({j \in 1..(i - 1) : markers[j].level < markers[i].level})
    ELSE 0

\* the subsections lists of all sections but section j are left alone
OtherSubsectionsKept(before, after, j) ==
    \A q \in 1..Len(before) :
        q # j => after[q].subsections = before[q].subsections

\* C15 (parent attachment): the section of marker i is appended as the
\* last subsection of the section of the nearest preceding marker whose
\* level is strictly smaller, and it becomes a new root exactly when no
\* preceding marker has a strictly smaller level; a marker at the level of
\* an open section never becomes that section's child.
ParentAttachment ==
    [][BuildsNext =>
          /\ Len(call'.sections.secs) = calls'
          /\ call'.sections.secs[calls'].subsections = << >>
          /\ OtherSubsectionsKept(call.sections.secs, call'.sections.secs,
                                  NearestBelow(call.markers, calls'))
          /\ NearestBelow(call.markers, calls') # 0 =>
                /\ call'.sections.secs[NearestBelow(call.markers, calls')].subsections
                     = Append(call.sections.secs[
                                  NearestBelow(call.markers, calls')].subsections,
                              calls')
                /\ call'.sections.roots = call.sections.roots
          /\ NearestBelow(call.markers, calls') = 0 =>
                call'.sections.roots = Append(call.sections.roots, calls')
          /\ \A q \in 1..Len(call.sections.stack) :
                call.sections.secs[call.sections.stack[q]].level
                    = call.markers[calls'].level
                  => \A r \in 1..Len(call'.sections.secs[
                                        call.sections.stack[q]].subsections) :
                        call'.sections.secs[call.sections.stack[q]].subsections[r]
                          # calls']_vars

\* the third marker, at the level of the second, has become the second
\* subsection of the first
ParentAttachmentWitness ==
    /\ pc = "building"
    /\ calls = 3
    /\ call.sections.secs[1].subsections = <<2, 3>>
    /\ call.sections.secs[2].level = call.sections.secs[3].level

\* the marker list has been sorted and the loop of the tree builder is
\* running or has run
TreeLoopEntered == pc \in {"building", "built", "assembled"} /\ Len(call.markers) > 0

\* C16 (section span): the section built for the i-th marker of the
\* sorted list starts at that marker's offset, ends at the offset of
\* marker i + 1, or at the length of the text for the last marker, and
\* holds the trimmed slice of the text between the two, whatever the
\* levels of the two markers.
SectionSpan ==
    TreeLoopEntered =>
        \A i \in 1..Len(call.sections.secs) :
            /\ call.sections.secs[i].char_start = call.markers[i].position
            /\ i < Len(call.markers) =>
                  call.sections.secs[i].char_end = call.markers[i + 1].position
            /\ i = Len(call.markers) =>
                  call.sections.secs[i].char_end = Len(parsed_book.raw_text)
            /\ call.sections.secs[i].text
                 = strip(Slice(parsed_book.raw_text,
                               call.sections.secs[i].char_start,
                               call.sections.secs[i].char_end))

\* a section with a subsection ends where that subsection starts, well
\* before the next section of its own level
SectionSpanWitness ==
    /\ pc = "built"
    /\ Len(call.sections.secs) = 3
    /\ call.sections.secs[1].subsections = <<2>>
    /\ call.sections.roots = <<1, 3>>
    /\ call.sections.secs[1].char_end = call.sections.secs[2].char_start
    /\ call.sections.secs[2].char_end < call.sections.secs[3].char_end
    /\ call.sections.secs[1].char_start < call.sections.secs[1].char_end

\* C17 (section offsets): every Section the tree builder builds from a
\* marker list of the scanner, at any depth of the forest, has
\* char_start < char_end.
SectionOffsets ==
    Returned =>
        \A i \in 1..Len(call.sections.secs) :
            call.sections.secs[i].char_start < call.sections.secs[i].char_end

\* the scanner has found markers of two kinds, and the section of the
\* second is a subsection of the section of the first
SectionOffsetsWitness ==
    /\ Returned
    /\ Len(call.sections.secs) = 2
    /\ call.markers[1].type # call.markers[2].type
    /\ call.sections.secs[1].subsections = <<2>>

\* the place of a kind in the scan order of STRUCTURE_PATTERNS
KindIndex(type) == CHOOSE k \in 1..Len(SectionTypes) : SectionTypes[k] = type

\* sorted by non-decreasing offset, markers at one offset in scan order
SortedInScanOrder(markers) ==
    \A a \in 1..Len(markers) :
        \A b \in (a + 1)..Len(markers) :
            /\ markers[a].position <= markers[b].position
            /\ markers[a].position = markers[b].position =>
                  KindIndex(markers[a].type) < KindIndex(markers[b].type)

\* the same markers, each as often
SameMarkers(before, after) ==
    /\ Len(before) = Len(after)
    /\ \A a \in 1..Len(before) :
          Cardinality({b \in 1..Len(before) : before[b] = before[a]})
            = Cardinality({b \in 1..Len(after) : after[b] = before[a]})

\* C18 (marker ordering): the list handed to the tree builder holds the
\* scanned markers sorted by non-decreasing offset, markers at equal
\* offsets in the scan order perek, siman, seif, halacha, siman_katan;
\* when the scan finds no marker the forest is empty.
MarkerOrdering ==
    [][/\ (pc = "scanned" /\ pc' = "building") =>
              /\ SameMarkers(call.markers, call'.markers)
              /\ SortedInScanOrder(call'.markers)
       /\ (pc = "scanned" /\ pc' = "built") =>
              /\ Len(call.markers) = 0
              /\ call'.sections.roots = << >>
       /\ (pc = "building" /\ pc' = "building") =>
              call'.markers = call.markers]_vars

\* the sort has moved a marker in front of markers of earlier kinds and
\* left two markers at one offset in scan order
MarkerOrderingWitness ==
    /\ pc = "building"
    /\ Len(call.markers) = 3
    /\ call.markers[1].position = call.markers[2].position
    /\ KindIndex(call.markers[3].type) < KindIndex(call.markers[1].type)
    /\ call.markers[2].position < call.markers[3].position

\* the last call took the structured path
Structured == Len(call.sections.roots) > 0

\* the word sequence of a holds the word sequence of b as a block
HoldsWords(a, b) ==
    \E j \in 0..(Len(a) - Len(b)) : SubSeq(a, j + 1, j + Len(b)) = b

\* C19 (only leaves are chunked): on the structured path the assembled
\* list is made of the chunks of the leaf sections alone, leaf after
\* leaf in depth-first, left-to-right order, each chunk lying inside the
\* span of its leaf and holding words of its leaf; a section that has
\* subsections yields no chunk, so that no chunk starts inside the span of
\* such a section.
OnlyLeavesChunked ==
    (Assembled /\ Structured) =>
        /\ Len(call.assembled)
             = YieldBefore(call.sections.secs,
                           LeavesOf(call.sections.secs, call.sections.roots),
                           Len(LeavesOf(call.sections.secs, call.sections.roots)),
                           chunker)
        /\ \A n \in 1..Len(LeavesOf(call.sections.secs, call.sections.roots)) :
              \A k \in SegmentOf(call.sections.secs,
                                 LeavesOf(call.sections.secs, call.sections.roots),
                                 n, chunker) :
                  /\ call.sections.secs[
                        LeavesOf(call.sections.secs, call.sections.roots)[n]
                     ].char_start <= call.assembled[k].char_start
                  /\ call.assembled[k].char_start
                       < call.sections.secs[
                            LeavesOf(call.sections.secs, call.sections.roots)[n]
                         ].char_end
                  /\ HoldsWords(
                        split(call.sections.secs[
                            LeavesOf(call.sections.secs, call.sections.roots)[n]
                        ].text),
                        split(call.assembled[k].text))
        /\ \A j \in 1..Len(call.sections.secs) :
              Len(call.sections.secs[j].subsections) > 0 =>
                  \A k \in 1..Len(call.assembled) :
                      ~ (/\ call.sections.secs[j].char_start
                              <= call.assembled[k].char_start
                         /\ call.assembled[k].char_start
                              < call.sections.secs[j].char_end)

\* a section that holds words of its own has a subsection, and the
\* leaves have yielded two chunks or more
OnlyLeavesChunkedWitness ==
    /\ pc = "assembled"
    /\ Len(call.assembled) >= 2
    /\ \E j \in 1..Len(call.sections.secs) :
          /\ Len(call.sections.secs[j].subsections) > 0
          /\ Len(split(call.sections.secs[j].text)) > 0

\* what the assembler decides of a chunk: everything but the identifiers,
\* the book fields and the indices
Emitted(c) ==
    [text |-> c.text, section_path |-> c.section_path,
     section_type |-> c.section_type, char_start |-> c.char_start,
     char_end |-> c.char_end, token_count |-> c.token_count]

\* the chunks of the assembled list at the positions from + 1 .. from + n
EmittedFrom(chunks, from, n) == [k \in 1..n |-> Emitted(chunks[from + k])]

\* the chunks the splitter returns for a leaf section under a path
SplitterOutput(section, cfg, section_path) ==
    EmittedFrom(_sliding_window_chunks(section.text, cfg, MergeMeta, section_path,
                                       section.section_type, section.char_start),
                0, LeafYield(section, cfg))

\* the n-th leaf is dispatched as the assembler is to dispatch it
LeafDispatched(secs, leaves, n, cfg, chunks) ==
    IF estimate_tokens(secs[leaves[n]].text) <= cfg.max_tokens
    THEN IF Len(strip(secs[leaves[n]].text)) > 0
         THEN EmittedFrom(chunks, YieldBefore(secs, leaves, n - 1, cfg), 1)
                = <<[text |-> secs[leaves[n]].text,
                     section_path |-> JoinTitles(TitlesTo(secs, leaves[n])),
                     section_type |-> secs[leaves[n]].section_type,
                     char_start |-> secs[leaves[n]].char_start,
                     char_end |-> secs[leaves[n]].char_end,
                     token_count |-> estimate_tokens(secs[leaves[n]].text)]>>
         ELSE SegmentOf(secs, leaves, n, cfg) = {}
    ELSE EmittedFrom(chunks, YieldBefore(secs, leaves, n - 1, cfg),
                     LeafYield(secs[leaves[n]], cfg))
           = SplitterOutput(secs[leaves[n]], cfg,
                            JoinTitles(TitlesTo(secs, leaves[n])))

\* C20 (leaf dispatch): a leaf section of at most max_tokens words and a
\* non-empty trimmed text yields exactly one chunk with the section's full
\* text, its char_start and char_end, its kind and path, and the estimate
\* as token_count; a leaf of more than max_tokens words yields exactly the
\* chunks the sliding-window splitter returns when called with the
\* section's char_start as base offset.
LeafDispatch ==
    (Assembled /\ Structured) =>
        /\ Len(call.assembled)
             = YieldBefore(call.sections.secs,
                           LeavesOf(call.sections.secs, call.sections.roots),
                           Len(LeavesOf(call.sections.secs, call.sections.roots)),
                           chunker)
        /\ \A n \in 1..Len(LeavesOf(call.sections.secs, call.sections.roots)) :
              LeafDispatched(call.sections.secs,
                             LeavesOf(call.sections.secs, call.sections.roots),
                             n, chunker, call.assembled)

\* one leaf has fitted into a single chunk and a later leaf, which does not
\* start the text, has gone to the splitter and come back in windows
LeafDispatchWitness ==
    /\ pc = "assembled"
    /\ \E a \in 1..Len(call.sections.secs), b \in 1..Len(call.sections.secs) :
          /\ a < b
          /\ Len(call.sections.secs[a].subsections) = 0
          /\ Len(call.sections.secs[b].subsections) = 0
          /\ LeafYield(call.sections.secs[a], chunker) = 1
          /\ estimate_tokens(call.sections.secs[b].text) > chunker.max_tokens
          /\ LeafYield(call.sections.secs[b], chunker) >= 2
          /\ call.sections.secs[b].char_start > 0

\* the offset in the text at which each part of re.split begins
RECURSIVE PartOffsets(_, _, _)
PartOffsets(t, from, i) ==
    IF i >= Len(t) THEN <<from>>
    ELSE IF SeparatorAt(t, i) >= 0
         THEN <<from>> \o PartOffsets(t, SeparatorAt(t, i), SeparatorAt(t, i))
         ELSE PartOffsets(t, from, i + 1)

PartsWithOffsets(parts, offsets) ==
    [k \in 1..Len(parts) |-> [para |-> parts[k], start |-> offsets[k]]]

NonBlankPart(p) == Len(strip(p.para)) > 0

\* the paragraphs of a text that hold a word, each with its offset
ParagraphsOf(text) ==
    SelectSeq(PartsWithOffsets(ReSplit(text, 0, 0), PartOffsets(text, 0, 0)),
              NonBlankPart)

\* what the splitter returns for a paragraph, called with the paragraph's
\* offset as base
ParaSplit(p, cfg) ==
    _sliding_window_chunks(strip(p.para), cfg, MergeMeta, << >>, "paragraph",
                           p.start)

\* the one chunk of a paragraph that is not split
ParaWhole(p) ==
    [text |-> strip(p.para), section_path |-> << >>,
     section_type |-> "paragraph", char_start |-> p.start,
     char_end |-> p.start + Len(p.para),
     token_count |-> estimate_tokens(strip(p.para))]

\* how many chunks a paragraph yields
ParaYield(p, cfg) ==
    IF estimate_tokens(strip(p.para)) <= cfg.max_tokens THEN 1
    ELSE Len(ParaSplit(p, cfg))

RECURSIVE ParaYieldBefore(_, _, _)
ParaYieldBefore(paras, n, cfg) ==
    IF n = 0 THEN 0
    ELSE ParaYieldBefore(paras, n - 1, cfg) + ParaYield(paras[n], cfg)

\* the chunks of the assembled list that come from the n-th paragraph
ParaChunks(paras, n, cfg, chunks) ==
    EmittedFrom(chunks, ParaYieldBefore(paras, n - 1, cfg), ParaYield(paras[n], cfg))

\* the fallback has assembled the chunks of a text
FellBack == Returned /\ Len(call.ran) > 0 /\ call.ran[2] = "fallback"

\* C21 as amended (fallback paragraph threshold): on the fallback path a
\* paragraph that holds a word and whose token count is at most max_tokens,
\* exactly max_tokens included, becomes exactly one chunk with the trimmed
\* paragraph as text, section_type "paragraph", an empty section_path and
\* the paragraph's span as offsets; a paragraph whose token count is
\* strictly above max_tokens yields exactly the chunks the sliding-window
\* splitter returns for it with the paragraph's offset as base.
FallbackThreshold ==
    FellBack =>
        /\ Len(call.assembled)
             = ParaYieldBefore(ParagraphsOf(parsed_book.raw_text),
                               Len(ParagraphsOf(parsed_book.raw_text)), chunker)
        /\ \A n \in 1..Len(ParagraphsOf(parsed_book.raw_text)) :
              ParaChunks(ParagraphsOf(parsed_book.raw_text), n, chunker,
                         call.assembled)
                = IF estimate_tokens(strip(ParagraphsOf(parsed_book.raw_text)[n].para))
                       <= chunker.max_tokens
                  THEN <<ParaWhole(ParagraphsOf(parsed_book.raw_text)[n])>>
                  ELSE EmittedFrom(ParaSplit(ParagraphsOf(parsed_book.raw_text)[n],
                                             chunker),
                                   0,
                                   ParaYield(ParagraphsOf(parsed_book.raw_text)[n],
                                             chunker))

\* a text of two paragraphs: one of exactly max_tokens words with
\* whitespace around it, kept whole, and one above max_tokens, split into
\* windows that start at the paragraph's offset
FallbackThresholdWitness ==
    /\ FellBack
    /\ \E a, b \in 1..Len(ParagraphsOf(parsed_book.raw_text)) :
          /\ estimate_tokens(strip(ParagraphsOf(parsed_book.raw_text)[a].para))
               = chunker.max_tokens
          /\ ParagraphsOf(parsed_book.raw_text)[a].para
               # strip(ParagraphsOf(parsed_book.raw_text)[a].para)
          /\ estimate_tokens(strip(ParagraphsOf(parsed_book.raw_text)[b].para))
               > chunker.max_tokens
          /\ ParagraphsOf(parsed_book.raw_text)[b].start > 0
          /\ ParaYield(ParagraphsOf(parsed_book.raw_text)[b], chunker) >= 2

\* C21 as stated: a paragraph strictly below max_tokens becomes one chunk,
\* and a paragraph at or above max_tokens, exactly max_tokens included,
\* comes out as the splitter returns it.
FallbackThresholdAtOrAbove ==
    FellBack =>
        \A n \in 1..Len(ParagraphsOf(parsed_book.raw_text)) :
            ParaChunks(ParagraphsOf(parsed_book.raw_text), n, chunker,
                       call.assembled)
              = IF estimate_tokens(strip(ParagraphsOf(parsed_book.raw_text)[n].para))
                     < chunker.max_tokens
                THEN <<ParaWhole(ParagraphsOf(parsed_book.raw_text)[n])>>
                ELSE EmittedFrom(ParaSplit(ParagraphsOf(parsed_book.raw_text)[n],
                                           chunker),
                                 0,
                                 ParaYield(ParagraphsOf(parsed_book.raw_text)[n],
                                           chunker))

\* the splitter has returned its list
SplitReturned == pc = "returned"

\* the step the claims name: max(target_tokens - overlap_tokens, 1)
StepOf(cfg) ==
    IF cfg.target_tokens - cfg.overlap_tokens > 1
    THEN cfg.target_tokens - cfg.overlap_tokens ELSE 1

\* where the k-th window starts and ends according to the claims
StartOf(k, cfg) == (k - 1) * StepOf(cfg)

EndOf(k, cfg, n) ==
    IF StartOf(k, cfg) + cfg.target_tokens < n
    THEN StartOf(k, cfg) + cfg.target_tokens ELSE n

\* the k-th chunk holds exactly the words [StartOf(k), EndOf(k)) of the blob
HoldsWindow(chunks, k, words, cfg) ==
    /\ split(chunks[k].text)
         = [i \in 1..(EndOf(k, cfg, Len(words)) - StartOf(k, cfg)) |->
               words[StartOf(k, cfg) + i]]
    /\ chunks[k].token_count = EndOf(k, cfg, Len(words)) - StartOf(k, cfg)

\* the window shape of a list of chunks over the words of a blob
ShapedWindows(chunks, words, cfg) ==
    /\ Len(chunks) >= 1
    /\ \A k \in 1..Len(chunks) :
          /\ StartOf(k, cfg) < Len(words)
          /\ EndOf(k, cfg, Len(words)) > StartOf(k, cfg)
          /\ HoldsWindow(chunks, k, words, cfg)
    /\ \A k \in 1..(Len(chunks) - 1) :
          /\ chunks[k].token_count = cfg.target_tokens
          /\ EndOf(k, cfg, Len(words)) < Len(words)
    /\ EndOf(Len(chunks), cfg, Len(words)) = Len(words)

\* C22 (window shape): a blob of 1 <= n <= max_tokens words comes back as
\* exactly one chunk; for n >= 1 above max_tokens the k-th chunk holds the words
\* [pos, min(pos + target_tokens, n)) with pos = (k - 1) * step and
\* step = max(target_tokens - overlap_tokens, 1), every window but the last
\* has exactly target_tokens words, the last window ends at word n, and no
\* window follows the first one that reaches word n.
WindowShape ==
    SplitReturned =>
        /\ (Len(split(call.text)) >= 1
              /\ Len(split(call.text)) <= chunker.max_tokens)
             => /\ Len(call.chunks) = 1
                /\ split(call.chunks[1].text) = split(call.text)
        /\ (Len(split(call.text)) >= 1
              /\ Len(split(call.text)) > chunker.max_tokens)
             => ShapedWindows(call.chunks, split(call.text), chunker)

\* the call of the splitter is over: it has returned or raised
SplitOver == pc \in {"returned", "raised"}

\* C23 (termination): the sliding-window loop ends for every blob and
\* every configuration, also with overlap_tokens >= target_tokens: an
\* iteration that does not leave the loop moves the start index forward by
\* at least one word, the loop never runs more iterations than the blob has
\* words, and every call of the splitter comes to its end.
SplitterTerminates ==
    /\ [][(pc = "loop" /\ pc' = "loop")
            => /\ call'.pos >= call.pos + 1
               /\ Len(call'.chunks) = Len(call.chunks) + 1
               /\ Len(call'.chunks) <= Len(call'.words)]_vars
    /\ (pc = "called") ~> SplitOver

\* the loop has come to its end after three iterations with a step that
\* only the floor of one keeps positive
SplitterTerminatesWitness ==
    /\ pc = "returned"
    /\ chunker.overlap_tokens >= chunker.target_tokens
    /\ chunker.target_tokens >= 1
    /\ Len(call.chunks) >= 3

\* the splitter has returned the windows of a blob above max_tokens under
\* a valid configuration
WindowsReturned ==
    /\ SplitReturned
    /\ ValidConfig(chunker)
    /\ Len(call.words) > chunker.max_tokens

\* the words of the chunks from the k-th on, each later chunk without the
\* overlap_tokens words it shares with the chunk before it
RECURSIVE WithoutOverlaps(_, _, _)
WithoutOverlaps(chunks, k, overlap) ==
    IF k > Len(chunks) THEN << >>
    ELSE SubSeq(split(chunks[k].text), (IF k = 1 THEN 0 ELSE overlap) + 1,
                Len(split(chunks[k].text)))
         \o WithoutOverlaps(chunks, k + 1, overlap)

\* C28 (sliding-window word coverage): for a blob of n > max_tokens words
\* and a valid configuration every word index of the blob lies in at least
\* one window, and the windows joined with the overlap_tokens shared words
\* removed from the front of each later window are the blob's word sequence.
WindowCoverage ==
    WindowsReturned =>
        /\ \A i \in 1..Len(split(call.text)) :
              \E k \in 1..Len(call.chunks) :
                 \E j \in 1..Len(split(call.chunks[k].text)) :
                    split(call.chunks[k].text)[j] = split(call.text)[i]
        /\ WithoutOverlaps(call.chunks, 1, chunker.overlap_tokens)
             = split(call.text)

\* a blob that took three windows or more, each sharing words with the next
WindowCoverageWitness ==
    /\ WindowsReturned
    /\ Len(call.chunks) >= 3
    /\ chunker.overlap_tokens >= 1

\* C29 (sliding-window offset bounds): under a valid configuration the
\* k-th window of a blob above max_tokens has
\* char_start = base + floor(pos * len(text) / n) and
\* char_end = base + floor(end * len(text) / n), which lie in
\* base <= char_start < char_end <= base + len(text); the first window
\* starts at base, the last one ends at base + len(text), and char_start
\* and char_end do not decrease from one window to the next.
WindowOffsets ==
    WindowsReturned =>
        /\ \A k \in 1..Len(call.chunks) :
              /\ call.chunks[k].char_start
                   = call.char_offset
                     + (StartOf(k, chunker) * Len(call.text)) \div Len(split(call.text))
              /\ call.chunks[k].char_end
                   = call.char_offset
                     + (EndOf(k, chunker, Len(split(call.text))) * Len(call.text))
                          \div Len(split(call.text))
              /\ call.char_offset <= call.chunks[k].char_start
              /\ call.chunks[k].char_start < call.chunks[k].char_end
              /\ call.chunks[k].char_end <= call.char_offset + Len(call.text)
        /\ call.chunks[1].char_start = call.char_offset
        /\ call.chunks[Len(call.chunks)].char_end = call.char_offset + Len(call.text)
        /\ \A k \in 1..(Len(call.chunks) - 1) :
              /\ call.chunks[k].char_start <= call.chunks[k + 1].char_start
              /\ call.chunks[k].char_end <= call.chunks[k + 1].char_end

\* the last accumulated entry and the chunk the pass visits next
LastMerged == call.merged[Len(call.merged)]

NextChunk == call.rest[1]

\* a step of the pass that visits one chunk
PassStep == pc = "pass" /\ pc' = "pass"

\* the three conditions of the merge, on the state before the step
MayMerge ==
    /\ LastMerged.token_count < chunker.min_tokens
    /\ LastMerged.token_count + NextChunk.token_count <= chunker.max_tokens
    /\ LastMerged.section_path = NextChunk.section_path

\* the accumulator's entries before its last one
EarlierEntries(merged) == SubSeq(merged, 1, Len(merged) - 1)

\* C24 (merge condition): a step of the pass merges the next chunk into
\* the last accumulated entry if and only if that entry has fewer than
\* min_tokens tokens, the two together have at most max_tokens and their
\* section paths are equal; otherwise it appends the next chunk unchanged.
\* The entries before the last one are never touched, and an entry that
\* came out of a merge is the candidate of the next step like any other.
MergeConditionExact ==
    [][PassStep =>
         /\ call'.rest = Tail(call.rest)
         /\ IF MayMerge
            THEN /\ Len(call'.merged) = Len(call.merged)
                 /\ EarlierEntries(call'.merged) = EarlierEntries(call.merged)
                 /\ call'.merged[Len(call.merged)].token_count
                        = LastMerged.token_count + NextChunk.token_count
                 /\ call'.merged[Len(call.merged)].id # LastMerged.id
            ELSE call'.merged = Append(call.merged, NextChunk)]_vars

\* the pass has merged three chunks into one: the entry that came out of
\* the first merge was merged again with the chunk after it
MergeConditionExactWitness ==
    /\ pc = "pass"
    /\ Len(call.assembled) = 3
    /\ Len(call.rest) = 0
    /\ Len(call.merged) = 1
    /\ call.merged[1].token_count = 3
    /\ call.draws = 5

\* a step of the pass that merged: the accumulator did not grow
MergingStep == PassStep /\ Len(call'.merged) = Len(call.merged)

\* the entry a merging step leaves at the accumulator's end
MergeResult == call'.merged[Len(call.merged)]

\* C25 (merged chunk contents): the chunk a merge of A (the accumulated
\* entry) and B (the next chunk) leaves has A's text, a blank line and B's
\* text as text, A's char_start, B's char_end, the sum of the two token
\* counts, and A's section_path, section_type, book_id, book_title,
\* book_author and language; A and B have the same section_path.
MergedContents ==
    [][MergingStep =>
         /\ MergeResult.text = LastMerged.text \o <<"\n", "\n">> \o NextChunk.text
         /\ MergeResult.char_start = LastMerged.char_start
         /\ MergeResult.char_end = NextChunk.char_end
         /\ MergeResult.token_count = LastMerged.token_count + NextChunk.token_count
         /\ MergeResult.section_path = LastMerged.section_path
         /\ MergeResult.section_type = LastMerged.section_type
         /\ MergeResult.book_id = LastMerged.book_id
         /\ MergeResult.book_title = LastMerged.book_title
         /\ MergeResult.book_author = LastMerged.book_author
         /\ MergeResult.language = LastMerged.language
         /\ LastMerged.section_path = NextChunk.section_path]_vars

\* a chunk of one word at 0..10 and a chunk of two words at 10..20 have
\* been merged into one chunk
MergedContentsWitness ==
    /\ pc = "pass"
    /\ Len(call.assembled) = 2
    /\ Len(call.merged) = 1
    /\ call.merged[1].text = <<"w", "\n", "\n", "w", " ", "w">>
    /\ call.merged[1].char_start = 0
    /\ call.merged[1].char_end = 20

\* the sum of the token counts of a list of chunks
RECURSIVE TotalTokens(_)
TotalTokens(chunks) ==
    IF Len(chunks) = 0 THEN 0
    ELSE chunks[1].token_count + TotalTokens(Tail(chunks))

\* every chunk of the list has the section_path of the first
OnePath(chunks) ==
    \A k \in 1..Len(chunks) : chunks[k].section_path = chunks[1].section_path

\* chunks k and k + 1 have one section_path and are each under min_tokens
SmallNeighbours(chunks, k, cfg) ==
    /\ chunks[k].section_path = chunks[k + 1].section_path
    /\ chunks[k].token_count < cfg.min_tokens
    /\ chunks[k + 1].token_count < cfg.min_tokens

\* the merger has returned
MergerReturned == pc = "merged"

\* C26 as stated (small-run merging): a list of chunks of one section_path
\* whose token counts add up to less than min_tokens comes back as exactly
\* one chunk, and a list that holds consecutive chunks of one section_path
\* that are each under min_tokens comes back shorter; the configuration is
\* a valid one, so that min_tokens <= max_tokens as the claim supposes.
SmallRunsCoalesce ==
    (MergerReturned /\ ValidConfig(chunker) /\ Len(call.assembled) >= 1) =>
        /\ (OnePath(call.assembled)
              /\ TotalTokens(call.assembled) < chunker.min_tokens)
               => Len(call.merged) = 1
        /\ (\E k \in 1..(Len(call.assembled) - 1) :
               SmallNeighbours(call.assembled, k, chunker))
               => Len(call.merged) < Len(call.assembled)

\* C26 as amended: a non-empty list of chunks of one section_path whose
\* token counts add up to less than min_tokens and to at most max_tokens
\* comes back as exactly one chunk, and a list that holds two consecutive
\* chunks of one section_path that are each under min_tokens and together
\* have at most max_tokens tokens comes back shorter, whatever the
\* configuration.
SmallRunsThatFitCoalesce ==
    MergerReturned =>
        /\ (Len(call.assembled) >= 1
              /\ OnePath(call.assembled)
              /\ TotalTokens(call.assembled) < chunker.min_tokens
              /\ TotalTokens(call.assembled) <= chunker.max_tokens)
               => Len(call.merged) = 1
        /\ (\E k \in 1..(Len(call.assembled) - 1) :
               /\ SmallNeighbours(call.assembled, k, chunker)
               /\ call.assembled[k].token_count
                      + call.assembled[k + 1].token_count <= chunker.max_tokens)
               => Len(call.merged) < Len(call.assembled)

\* two chunks of one word each under one section_path, min_tokens = 3 and
\* max_tokens = 2, have come back as one chunk of two words
SmallRunsWitness ==
    /\ MergerReturned
    /\ Len(call.assembled) = 2
    /\ OnePath(call.assembled)
    /\ TotalTokens(call.assembled) = 2
    /\ chunker.min_tokens = 3
    /\ chunker.max_tokens = 2
    /\ Len(call.merged) = 1
    /\ call.merged[1].token_count = 2

\* the index assigner has returned
Indexed == pc = "indexed"

\* chunk c with the two index fields of chunk b
WithIndexOf(c, b) ==
    [c EXCEPT !.chunk_index = b.chunk_index,
              !.total_chunks_in_section = b.total_chunks_in_section]

\* C27 (index assigner frame): the list _assign_indices returns has the
\* length and the order of the list it was given and differs from it in
\* chunk_index and total_chunks_in_section only; within a section_path
\* chunk_index lies in 0..total_chunks_in_section - 1 and grows along the
\* list, whether or not the chunks of the path are adjacent.
IndexFrame ==
    Indexed =>
        /\ Len(call.chunks) = Len(call.merged)
        /\ \A k \in 1..Len(call.chunks) :
              /\ WithIndexOf(call.chunks[k], call.merged[k]) = call.merged[k]
              /\ call.chunks[k].chunk_index >= 0
              /\ call.chunks[k].chunk_index < call.chunks[k].total_chunks_in_section
        /\ \A j \in 1..Len(call.chunks), k \in 1..Len(call.chunks) :
              (j < k /\ call.chunks[j].section_path = call.chunks[k].section_path)
                  => /\ call.chunks[j].chunk_index < call.chunks[k].chunk_index
                     /\ call.chunks[j].total_chunks_in_section
                            = call.chunks[k].total_chunks_in_section

\* three chunks came back, the first and the third of one section_path and
\* the second of another: the third has index 1 of 2
IndexFrameWitness ==
    /\ Indexed
    /\ Len(call.chunks) = 3
    /\ call.chunks[1].section_path = call.chunks[3].section_path
    /\ call.chunks[2].section_path # call.chunks[1].section_path
    /\ call.chunks[1].chunk_index = 0
    /\ call.chunks[2].chunk_index = 0
    /\ call.chunks[3].chunk_index = 1
    /\ call.chunks[3].total_chunks_in_section = 2

\* the texts of the first m chunks joined by blank lines
RECURSIVE BlankLineJoin(_, _)
BlankLineJoin(chunks, m) ==
    IF m = 1 THEN chunks[1].text
    ELSE BlankLineJoin(chunks, m - 1) \o <<"\n", "\n">> \o chunks[m].text

\* cut at the blank lines the merger put in, the texts of out are the
\* texts of inp, one after the other
RECURSIVE Regroups(_, _)
Regroups(out, inp) ==
    IF Len(out) = 0 THEN Len(inp) = 0
    ELSE \E m \in 1..Len(inp) :
            /\ out[1].text = BlankLineJoin(inp, m)
            /\ out[1].token_count = TotalTokens(SubSeq(inp, 1, m))
            /\ Regroups(Tail(out), SubSeq(inp, m + 1, Len(inp)))

\* C30 (merge conservation): the merger's output has at most as many
\* chunks as its input and the same sum of token counts, and its texts,
\* cut at the blank lines the merger put in, are the input texts in their
\* order: no chunk is dropped, duplicated or moved.
MergeConserves ==
    MergerReturned =>
        /\ Len(call.merged) <= Len(call.assembled)
        /\ TotalTokens(call.merged) = TotalTokens(call.assembled)
        /\ Regroups(call.merged, call.assembled)

\* three chunks of one, two and three words came back as two: the first
\* two merged, the third on its own
MergeConservesWitness ==
    /\ MergerReturned
    /\ Len(call.assembled) = 3
    /\ call.assembled[1].token_count = 1
    /\ call.assembled[2].token_count = 2
    /\ call.assembled[3].token_count = 3
    /\ Len(call.merged) = 2
    /\ call.merged[1].text = <<"w", "\n", "\n", "w", " ", "w">>
    /\ call.merged[2] = call.assembled[3]

=============================================================================
